---- MODULE Spec2Model ----
(***************************************************************************)
(* Model of amazon-csv-sync: the report poll loop (amazon_reports.py),     *)
(* the pricing engine (pricing_engine.py), the ASIN resolver               *)
(* (asin_resolver.py, product_identify.py), the approval and sync          *)
(* handlers working on the classification file (app_flask.py) and the      *)
(* command-line run with its token handling (sync_workflow.py).            *)
(* The operations of SpReportsSession are modelled with a caller that runs *)
(* the create, wait, download sequence of fetch_my_inventory.              *)
(*                                                                         *)
(* Money is counted in cents, rates in percent, scores in hundredths and   *)
(* time in whole poll-clock ticks.                                         *)
(***************************************************************************)
EXTENDS Integers, Sequences, FiniteSets, TLC

VARIABLES
    \* ---- SpReportsSession.wait_report ----
    wpc,          \* position: "call", "poll", "sleep", "returned", "raised"
    wsimulate,    \* self.simulate
    wtimeout,     \* timeout_sec
    wpollEvery,   \* poll_every
    welapsed,     \* time.time() - t0
    wpolls,       \* the get_report outcomes observed so far, in order
    wsleeps,      \* number of time.sleep calls made
    wslept,       \* total time spent in time.sleep
    wresult,      \* the payload returned to the caller
    \* ---- pricing_engine ----
    ppc,          \* "ready" before the call, "done" after it
    pcall,        \* which function is called: "floor" or "final"
    pcost,        \* the cost argument
    pcomp,        \* the competitor_price argument
    pcfg,         \* cfg["pricing_engine"], aliases resolved
    pout,         \* what the call produced
    \* ---- asin_resolver.resolve_asin / product_identify.classify_products ----
    rpc,          \* next lookup: "listing", "ean", "kw_brand", "kw_all"; then
                  \* "returned" or "raised", and "classified" once the row is written
    rsimulate,    \* simulate
    rin,          \* the arguments: sku, brand, ean, seller_id
    rcalls,       \* the lookups issued so far with their answers, in order
    rscored,      \* every candidate scored by the keyword path, in item order
    rres,         \* the dict resolve_asin returned
    cinv,         \* asins_meus: the asin column of data/my_inventory.csv
    crow,         \* the row classify_products appended for this product
    \* ---- data/produtos_classificados.csv and the handlers of app_flask ----
    cfile,        \* the rows of the file, or NoFile
    hpc,          \* per request thread: "idle", "loaded", "done"
    hreq,         \* per request thread: the JSON body of its request
    hdf,          \* per request thread: df as pd.read_csv returned it
    hwrote,       \* per request thread: the df it passed to to_csv (or NoWrite)
    hresp,        \* per request thread: the HTTP status answered (0 while running)
    \* ---- app_flask.sync_from_classified ----
    spc,          \* "start", then the feed step reached in real mode, then "done"
    ssimulate,    \* _get_simulate_flag()
    sreq,         \* data["rows"]
    sitems,       \* items: the rows of df_price and df_stock
    smarket,      \* the feeds created on the marketplace, in order
    ssummary,     \* the summary written to data/sync_<ts>.json (or NoSummary)
    sresp,        \* the HTTP status answered (0 while running)
    \* ---- sync_workflow.main, with the SpaSession of each resolve_asin call ----
    mpc,          \* "row", "resolving", "execute", "report", "done"
    mdry,         \* dry_run
    msimulate,    \* simulate
    mn,           \* len(df): the number of input rows
    mi,           \* the row being processed, 1-based
    mk,           \* signed calls made so far by the current resolve_asin
    mtok,         \* sess._token / sess._exp of the current SpaSession
    mnow,         \* time.time(), seconds since the run started
    mres,         \* what resolve_asin gave for the current row
    mlog,         \* the token exchanges performed so far, in order
    mwrites,      \* the patch/put calls main made so far, in order
    mout,         \* out_rows
    \* ---- a caller of SpReportsSession (its simulate flag is wsimulate) ----
    fpc,          \* the operation called next: "create", "get", "wait", "document",
                  \* "download"; then "done" or "raised"
    flog,         \* the operations called so far with their outcomes, in order
    \* ---- product_identify.classify_products over its input rows ----
    kpc,          \* "row", "write", "done", "raised_transport", "raised_token"
    ksimulate,    \* simulate
    kn,           \* len(df): the number of input rows
    ki,           \* the row being processed, 1-based
    kinv,         \* asins_meus
    kout,         \* out_rows
    kwritten,     \* TRUE once out_df.to_csv(output_csv) has run
    \* ---- amazon_reports._safe_replace(src_tmp, dst_final, retries) ----
    ypc,          \* "try", "returned", "raised"
    yretries,     \* retries
    ydst,         \* dst_final
    yattempts,    \* os.replace(src_tmp, dst_final) calls made so far
    ysleeps,      \* time.sleep(wait_sec) calls made so far
    yfiles,       \* what each path holds: "absent", "old" or "new"
    yerr,         \* where the PermissionError that left the function came from
    \* ---- amazon_reports.fetch_my_inventory (its simulate flag is wsimulate) ----
    gpc,          \* "start", "wait", "download", "write_raw", "parse", "write_csv",
                  \* "returned", "raised"
    gdocs,        \* download_report calls made so far
    graw,         \* raw: what download_report returned
    grawfile,     \* data/my_inventory_raw.tsv: "old" or "new"
    gcsvfile,     \* data/my_inventory.csv: "old" or "new"
    galt,         \* the files written under an alternate name
    gerr          \* the exception that left fetch_my_inventory, "" if none

wvars == <<wpc, wsimulate, wtimeout, wpollEvery, welapsed, wpolls, wsleeps, wslept, wresult>>

pvars == <<ppc, pcall, pcost, pcomp, pcfg, pout>>

rvars == <<rpc, rsimulate, rin, rcalls, rscored, rres, cinv, crow>>

avars == <<cfile, hpc, hreq, hdf, hwrote, hresp>>

svars == <<spc, ssimulate, sreq, sitems, smarket, ssummary, sresp>>

mvars == <<mpc, mdry, msimulate, mn, mi, mk, mtok, mnow, mres, mlog, mwrites, mout>>

fvars == <<fpc, flog>>

kvars == <<kpc, ksimulate, kn, ki, kinv, kout, kwritten>>

yvars == <<ypc, yretries, ydst, yattempts, ysleeps, yfiles, yerr>>

gvars == <<gpc, gdocs, graw, grawfile, gcsvfile, galt, gerr>>

vars == <<wvars, pvars, rvars, avars, svars, mvars, fvars, kvars, yvars, gvars>>

\* ---------------------------------------------------------------- bounds
MaxTimeout == 3
MaxPollEvery == 2
MaxLatency == 1
MaxItems == 3
MaxRows == 2
MaxRunRows == 2
MaxLookups == 2
MaxRetries == 5

\* ------------------------------------------------------------ helpers
Last(s) == s[Len(s)]

NoPayload == [kind |-> "none", n |-> 0, status |-> "", doc |-> ""]

\* ===================================================== amazon_reports.py
\* processingStatus values a poll can carry; "" stands for a payload without
\* the key (j.get returns None).
NonTerminalStatuses == {"IN_QUEUE", "IN_PROGRESS", ""}
ReportStatuses == NonTerminalStatuses \cup {"DONE", "CANCELLED", "FATAL", "ERROR"}

\* What one GET /reports/{id} can produce: a 2xx JSON payload, a non-2xx
\* response, or a timeout/connection failure of requests.request.
PollResponses ==
    {[kind |-> "ok", status |-> s, doc |-> d] :
        s \in ReportStatuses \ {"DONE"}, d \in {""}}
    \cup {[kind |-> "ok", status |-> "DONE", doc |-> d] : d \in {"", "DOC-1"}}
    \cup {[kind |-> k, status |-> "", doc |-> ""] : k \in {"http_error", "transport_error"}}

\* get_report: requests.request raises on a transport failure and
\* raise_for_status raises on a non-2xx response; otherwise the JSON is returned.
get_report_raises(resp) == resp.kind \in {"http_error", "transport_error"}

IsTerminalNoError(st) == st \in {"DONE", "CANCELLED", "FATAL"}
\* st in ("DONE","CANCELLED","FATAL","ERROR")
IsTerminalStatus(st) == st \in {"DONE", "CANCELLED", "FATAL", "ERROR"}

TimedOutInclusive(elapsed, timeout_sec) == elapsed >= timeout_sec
TimedOutNever(elapsed, timeout_sec) == FALSE
\* time.time()-t0 > timeout_sec
TimedOut(elapsed, timeout_sec) == elapsed > timeout_sec

SleepDurationDoubled(poll_every) == 2 * poll_every
\* time.sleep(poll_every)
SleepDuration(poll_every) == poll_every

\* The payload wait_report returns in simulation.
SimulatedReport == [kind |-> "ok", n |-> 0, status |-> "DONE", doc |-> "SIM-DOC"]

WaitInit ==
    /\ wpc = "call"
    /\ wsimulate \in BOOLEAN
    /\ wtimeout \in 0..MaxTimeout
    /\ wpollEvery \in 1..MaxPollEvery
    /\ welapsed = 0
    /\ wpolls = <<>>
    /\ wsleeps = 0
    /\ wslept = 0
    /\ wresult = NoPayload

WaitIdle ==
    /\ wpc = "idle"
    /\ wsimulate = TRUE
    /\ wtimeout = 0
    /\ wpollEvery = 1
    /\ welapsed = 0
    /\ wpolls = <<>>
    /\ wsleeps = 0
    /\ wslept = 0
    /\ wresult = NoPayload

\* wait_report entry: the simulate shortcut, else t0 = time.time().
WaitReportCall ==
    /\ wpc = "call"
    /\ IF wsimulate
         THEN /\ wpc' = "returned"
              /\ wresult' = SimulatedReport
         ELSE /\ wpc' = "poll"
              /\ wresult' = wresult
    /\ welapsed' = 0
    /\ UNCHANGED <<wsimulate, wtimeout, wpollEvery, wpolls, wsleeps, wslept>>

\* One pass of the loop body up to the sleep: get_report, then the two returns.
WaitReportPoll ==
    /\ wpc = "poll"
    /\ \E lat \in 0..MaxLatency, resp \in PollResponses :
         LET e == welapsed + lat
             j == [kind |-> resp.kind, n |-> Len(wpolls) + 1,
                   status |-> resp.status, doc |-> resp.doc]
         IN  /\ welapsed' = e
             /\ wpolls' = Append(wpolls, j)
             /\ IF get_report_raises(resp)
                  THEN /\ wpc' = "raised"
                       /\ wresult' = wresult
                  ELSE IF IsTerminalStatus(j.status) \/ TimedOut(e, wtimeout)
                  THEN /\ wpc' = "returned"
                       /\ wresult' = j
                  ELSE /\ wpc' = "sleep"
                       /\ wresult' = wresult
    /\ UNCHANGED <<wsimulate, wtimeout, wpollEvery, wsleeps, wslept>>

\* time.sleep(poll_every), then back to the top of the loop.
WaitReportSleep ==
    /\ wpc = "sleep"
    /\ wpc' = "poll"
    /\ welapsed' = welapsed + SleepDuration(wpollEvery)
    /\ wslept' = wslept + SleepDuration(wpollEvery)
    /\ wsleeps' = wsleeps + 1
    /\ UNCHANGED <<wsimulate, wtimeout, wpollEvery, wpolls, wresult>>


\* ===================================================== pricing_engine.py
\* A numeric argument as Python receives it: a number (cents), None, or a
\* string that float() rejects.
Num(v) == [kind |-> "num", v |-> v]
NoneArg == [kind |-> "none", v |-> 0]
InvalidArg == [kind |-> "invalid", v |-> 0]

Max(a, b) == IF a >= b THEN a ELSE b
Min(a, b) == IF a <= b THEN a ELSE b

\* round(x + 1e-9, 2) of the rational num/den cents (den > 0): the 1e-9 nudge
\* sends an exact half up, so this is round-half-up to a whole cent.
RoundCents(num, den) == (2 * num + den) \div (2 * den)

\* int(p) of a price of p cents: truncation toward zero, in whole units.
IntTrunc(p) == IF p >= 0 THEN p \div 100 ELSE -((-p) \div 100)

\* float(f"{n}.99") in cents: the sign of n applies to the fraction too.
Dot99(n) == IF n < 0 THEN 100 * n - 99 ELSE 100 * n + 99

\* _tier_margin, in percent: the first tier with cost <= max; a max of 0 reads
\* as 9e9 and a min_margin of 0 as 0.05 (the `or` defaults); 0.05 if no tier.
RECURSIVE tier_margin(_, _)
tier_margin(cost, tiers) ==
    IF tiers = <<>> THEN 5
    ELSE LET t == Head(tiers)
         IN  IF t.max = 0 \/ cost <= t.max
               THEN (IF t.min_margin = 0 THEN 5 ELSE t.min_margin)
               ELSE tier_margin(cost, Tail(tiers))

\* fee_factor in 1/10000: 1 - fee_rate*(1+fee_surcharge), clamped to 0.0001.
FeeFactor(fee_rate, fee_surcharge) ==
    LET f == 10000 - fee_rate * (100 + fee_surcharge)
    IN  IF f <= 0 THEN 1 ELSE f

\* _rounding of the rational num/den cents under policy pat.
rounding(num, den, pat) ==
    LET p == RoundCents(num, den)
        inteiro == IntTrunc(p)
    IN  IF pat = ".99"
          THEN IF p - 100 * inteiro >= 100 THEN Dot99(inteiro)
               ELSE IF p < 100 * inteiro THEN Dot99(inteiro - 1)
               ELSE Dot99(inteiro)
          ELSE p

\* calc_floor_price for a numeric cost (cents): target = cost*(1+margin)+ship
\* in 1/100 cent, price_inc_vat = target*(100+vat)/fee_factor cents.
calc_floor_price(cost, pe) ==
    LET target == cost * (100 + tier_margin(cost, pe.tiers)) + 100 * pe.shipping
        p == rounding(target * (100 + pe.vat),
                      FeeFactor(pe.fee_rate, pe.fee_surcharge), pe.rounding)
    IN  RoundCents(IF p < pe.min_abs_floor THEN pe.min_abs_floor ELSE p, 1)

FinalChoiceNoUndercut(floor, comp, under) ==
    IF comp.kind = "num" /\ comp.v # 0 /\ comp.v > 0
      THEN Max(floor, RoundCents(comp.v, 1))
      ELSE floor
\* lines 76-80: the competitor branch of calc_final_price (comp is not a string).
FinalChoice(floor, comp, under) ==
    IF comp.kind = "num" /\ comp.v # 0 /\ comp.v > 0
      THEN Max(floor, RoundCents(comp.v - under, 1))
      ELSE floor

\* lines 81-85: min(final_price, float(max_cap)) when max_cap is truthy; a
\* max_cap float() rejects is ignored.
ApplyCap(final_price, max_cap) ==
    IF max_cap.kind = "num" /\ max_cap.v # 0
      THEN Min(final_price, max_cap.v)
      ELSE final_price

Raised == [outcome |-> "raised", floor_price |-> 0, final_price |-> 0]

\* calc_floor_price called directly: a cost that is None or a string raises
\* TypeError at the tier comparison / the multiplication.
call_calc_floor_price(cost, pe) ==
    IF cost.kind # "num" THEN Raised
    ELSE LET f == calc_floor_price(cost.v, pe)
         IN  [outcome |-> "ok", floor_price |-> f, final_price |-> f]

\* calc_final_price(cost=..., competitor_price=..., cfg=...): float(cost or 0.0)
\* raises ValueError on a non-numeric string; a non-empty string competitor
\* raises TypeError at `> 0`.
calc_final_price(cost, comp, pe) ==
    IF cost.kind = "invalid" \/ comp.kind = "invalid" THEN Raised
    ELSE LET c == IF cost.kind = "none" THEN 0 ELSE cost.v
             floor == calc_floor_price(c, pe)
             final_price == ApplyCap(FinalChoice(floor, comp, pe.undercut_step),
                                     pe.max_price_cap)
         IN  [outcome |-> "ok", floor_price |-> floor,
              final_price |-> RoundCents(final_price, 1)]

\* ---- the inputs the pricing specification draws --------------------------
DefaultTiers == <<>>
SampleTiers == <<[max |-> 1000, min_margin |-> 100], [max |-> 2000, min_margin |-> 50],
                 [max |-> 0, min_margin |-> 0]>>

PricingConfigs ==
    [tiers : {DefaultTiers, SampleTiers},
     vat : {21},
     fee_rate : {13, 100},
     fee_surcharge : {2},
     shipping : {400},
     rounding : {"", ".99"},
     min_abs_floor : {0, 5000},
     undercut_step : {1, 300},
     max_price_cap : {NoneArg, InvalidArg, Num(2000), Num(10000000)}]

CostArgs == {NoneArg, InvalidArg} \cup {Num(v) : v \in {-1000, 0, 500, 1500, 2500}}

\* Competitor prices: absent, malformed, zero, negative and prices placed
\* around the floor F of the row (F + 10.00, F - 5.00, F + 0.01).
CompetitorArgs(cost, pe) ==
    LET F == calc_floor_price(IF cost.kind = "num" THEN cost.v ELSE 0, pe)
    IN  {NoneArg, InvalidArg, Num(0), Num(-500), Num(F + 1000), Num(F - 500), Num(F + 1)}

NoOutput == [outcome |-> "none", floor_price |-> 0, final_price |-> 0]

PricingInit ==
    /\ ppc = "ready"
    /\ pcall \in {"floor", "final"}
    /\ pcfg \in PricingConfigs
    /\ pcost \in CostArgs
    /\ pcomp \in CompetitorArgs(pcost, pcfg)
    /\ pout = NoOutput

PricingIdle ==
    /\ ppc = "idle"
    /\ pcall = "final"
    /\ pcfg = CHOOSE c \in PricingConfigs : TRUE
    /\ pcost = NoneArg
    /\ pcomp = NoneArg
    /\ pout = NoOutput

CallCalcFloorPrice ==
    /\ ppc = "ready" /\ pcall = "floor"
    /\ pout' = call_calc_floor_price(pcost, pcfg)
    /\ ppc' = "done"
    /\ UNCHANGED <<pcall, pcost, pcomp, pcfg>>

CallCalcFinalPrice ==
    /\ ppc = "ready" /\ pcall = "final"
    /\ pout' = calc_final_price(pcost, pcomp, pcfg)
    /\ ppc' = "done"
    /\ UNCHANGED <<pcall, pcost, pcomp, pcfg>>

\* ======================================= asin_resolver.py, product_identify.py
\* Python's None where a string is expected.
NoneVal == "<None>"

\* _norm on the brand strings of the model: strip, collapse blanks, lowercase.
norm(s) ==
    CASE s = "Acme" -> "acme"
      [] s = "ACME" -> "acme"
      [] s = " acme " -> "acme"
      [] s = "Other" -> "other"
      [] OTHER -> ""

\* A catalog item as the scoring loop reads it: its asin (or None), the brand of
\* its first summary, and sim = 100 * _sim(itemName, brand + model tokens).
Item(asin, brand, sim) == [asin |-> asin, brand |-> brand, sim |-> sim]

ItemPool ==
    {Item("B0AAA1", "ACME", 0), Item("B0BBB2", " acme ", 0),
     Item("B0CCC3", "Other", 90), Item(NoneVal, "ACME", 80),
     Item("B0EEE5", "", 79), Item("B0FFF6", "Acme", 95)}

RECURSIVE SeqsUpTo(_, _)
SeqsUpTo(S, n) ==
    IF n = 0 THEN {<<>>}
    ELSE LET shorter == SeqsUpTo(S, n - 1)
         IN  shorter \cup {Append(q, x) : q \in shorter, x \in S}

\* What one signed call can come back with: a 200 with a JSON body, a 200 whose
\* body does not parse, a non-200, or an exception out of _signed (the request
\* itself failing, or the token exchange failing).
Response(kind, summaries, items) == [kind |-> kind, summaries |-> summaries, items |-> items]
FailedResponses == {Response(k, <<>>, <<>>) : k \in {"badjson", "non200", "neterr", "autherr"}}
\* _signed in simulation: status 200, json() = {"items": []}.
SimulatedResponse == Response("ok", <<>>, <<>>)

ListingResponses ==
    {Response("ok", sm, <<>>) :
        sm \in {<<>>, <<[asin |-> NoneVal]>>, <<[asin |-> "B0LIST"]>>, <<[asin |-> "B0AAA1"]>>}}
    \cup FailedResponses
EanResponses ==
    {Response("ok", <<>>, it) : it \in SeqsUpTo(ItemPool, 1)} \cup FailedResponses
KeywordResponses ==
    {Response("ok", <<>>, it) : it \in SeqsUpTo(ItemPool, MaxItems)} \cup FailedResponses

\* One entry of the call log: the SpaSession method called and what came back.
Call(op, resp) == [op |-> op, resp |-> resp]

AnswersAlwaysReal(simulate, real) == real
\* _signed, lines 77-84: in simulation the canned R object, before any token or request.
Answers(simulate, real) == IF simulate THEN {SimulatedResponse} ELSE real

\* requests.request / _get_token raising inside _signed: nothing in resolve_asin
\* catches it.
signed_raises(resp) == resp.kind \in {"neterr", "autherr"}

\* r.status_code == 200 and r.json() parsed: the items (or summaries) read, else none.
items_of(resp) == IF resp.kind = "ok" THEN resp.items ELSE <<>>
summaries_of(resp) == IF resp.kind = "ok" THEN resp.summaries ELSE <<>>

Result(status, asin, score, candidates) ==
    [status |-> status, asin |-> asin, score |-> score, candidates |-> candidates]
NoResult == Result("none", NoneVal, 0, <<>>)

brand_score_decisive(b, ref) == IF b # "" /\ norm(b) = norm(ref) THEN 80 ELSE 0
\* _brand_score, in hundredths.
brand_score(b, ref) == IF b # "" /\ norm(b) = norm(ref) THEN 20 ELSE 0

\* Lines 197-203: the score of one item, in hundredths.
item_score(it, brand) ==
    LET sc == brand_score(it.brand, brand)
                + (IF it.sim >= 90 THEN 15 ELSE IF it.sim >= 80 THEN 10 ELSE 0)
    IN  Min(sc, 100)

\* Line 204: the candidates list, one entry per item in item order.
score_items(items, brand) ==
    [i \in 1..Len(items) |->
        [asin |-> items[i].asin, score |-> item_score(items[i], brand),
         brand |-> items[i].brand]]

\* Lines 192, 205-206: best is replaced only by a strictly higher score.
RECURSIVE best_of(_, _, _)
best_of(cands, i, best) ==
    IF i > Len(cands) THEN best
    ELSE best_of(cands, i + 1,
                 IF best = 0 \/ cands[i].score > cands[best].score THEN i ELSE best)

MaxScore(cands) == CHOOSE m \in {cands[i].score : i \in 1..Len(cands)} :
                       \A i \in 1..Len(cands) : cands[i].score <= m

FirstN(s, n) == SubSeq(s, 1, Min(n, Len(s)))

MatchThresholdLow(score) == score >= 20
\* best["score"] >= 0.80
MatchThreshold(score) == score >= 80

\* Lines 208-212: the decision of the keyword path.
decide(cands) ==
    LET best == best_of(cands, 1, 0)
    IN  IF best # 0 /\ MatchThreshold(cands[best].score)
          THEN Result("catalog_match", cands[best].asin, cands[best].score, FirstN(cands, 5))
        ELSE IF cands # <<>>
          THEN Result("catalog_ambiguous", NoneVal, MaxScore(cands), FirstN(cands, 5))
        ELSE Result("not_found", NoneVal, 0, <<>>)

\* Lines 144-151: a 200 whose first summary carries a truthy asin.
ListingHit(resp) ==
    /\ summaries_of(resp) # <<>>
    /\ Head(summaries_of(resp)).asin \notin {NoneVal, ""}

EanHitNever(resp) == FALSE
\* Lines 157-163: a 200 with at least one item.
EanHit(resp) == items_of(resp) # <<>>

\* Line 177: `if not items`.
NeedUnfiltered(items) == items = <<>>

ResolveInputs ==
    [sku : {"", "SKU-1"}, brand : {"", "Acme"}, ean : {NoneVal, "8400000000001"},
     seller_id : {NoneVal, "SELLER"}]

Inventories == {{}, {"B0AAA1", "B0CCC3"}}

NoRow == [existence |-> "none", asin |-> "", action |-> "", my_seller_sku |-> ""]

ResolveInit ==
    /\ rpc = "listing"
    /\ rsimulate \in BOOLEAN
    /\ rin \in ResolveInputs
    /\ rcalls = <<>>
    /\ rscored = <<>>
    /\ rres = NoResult
    /\ cinv \in Inventories
    /\ crow = NoRow

ResolveIdle ==
    /\ rpc = "idle"
    /\ rsimulate = TRUE
    /\ rin = CHOOSE x \in ResolveInputs : TRUE
    /\ rcalls = <<>>
    /\ rscored = <<>>
    /\ rres = NoResult
    /\ cinv = {}
    /\ crow = NoRow

\* Lines 142-153: the own-listing lookup.
ResolveListing ==
    /\ rpc = "listing"
    /\ IF rin.seller_id # NoneVal /\ rin.sku # ""
         THEN \E resp \in Answers(rsimulate, ListingResponses) :
                /\ rcalls' = Append(rcalls, Call("get_listing", resp))
                /\ IF signed_raises(resp)
                     THEN rpc' = "raised" /\ rres' = rres
                   ELSE IF ListingHit(resp)
                     THEN /\ rpc' = "returned"
                          /\ rres' = Result("listed", Head(summaries_of(resp)).asin, 100, <<>>)
                   ELSE rpc' = "ean" /\ rres' = rres
         ELSE rpc' = "ean" /\ UNCHANGED <<rcalls, rres>>
    /\ UNCHANGED <<rsimulate, rin, rscored, cinv, crow>>

\* Lines 155-165: the identifier lookup.
ResolveEan ==
    /\ rpc = "ean"
    /\ IF rin.ean # NoneVal
         THEN \E resp \in Answers(rsimulate, EanResponses) :
                /\ rcalls' = Append(rcalls, Call("search_by_ean", resp))
                /\ IF signed_raises(resp)
                     THEN rpc' = "raised" /\ rres' = rres
                   ELSE IF EanHit(resp)
                     THEN /\ rpc' = "returned"
                          /\ rres' = Result("catalog_match", Head(items_of(resp)).asin, 100, <<>>)
                   ELSE rpc' = "kw_brand" /\ rres' = rres
         ELSE rpc' = "kw_brand" /\ UNCHANGED <<rcalls, rres>>
    /\ UNCHANGED <<rsimulate, rin, rscored, cinv, crow>>

\* Lines 167-175, and 186-212 when the search produced items.
ResolveKeywordsBrand ==
    /\ rpc = "kw_brand"
    /\ \E resp \in Answers(rsimulate, KeywordResponses) :
         /\ rcalls' = Append(rcalls, Call("search_by_keywords:brand", resp))
         /\ IF signed_raises(resp)
              THEN rpc' = "raised" /\ UNCHANGED <<rres, rscored>>
            ELSE IF NeedUnfiltered(items_of(resp))
              THEN /\ rpc' = "kw_all"
                   /\ UNCHANGED <<rres, rscored>>
            ELSE /\ rpc' = "returned"
                 /\ rscored' = score_items(items_of(resp), rin.brand)
                 /\ rres' = decide(score_items(items_of(resp), rin.brand))
    /\ UNCHANGED <<rsimulate, rin, cinv, crow>>

\* Lines 177-184 and 186-212.
ResolveKeywordsAll ==
    /\ rpc = "kw_all"
    /\ \E resp \in Answers(rsimulate, KeywordResponses) :
         /\ rcalls' = Append(rcalls, Call("search_by_keywords:all", resp))
         /\ IF signed_raises(resp)
              THEN rpc' = "raised" /\ UNCHANGED <<rres, rscored>>
            ELSE /\ rpc' = "returned"
                 /\ rscored' = score_items(items_of(resp), rin.brand)
                 /\ rres' = decide(score_items(items_of(resp), rin.brand))
    /\ UNCHANGED <<rsimulate, rin, cinv, crow>>

\* str(x).strip().upper() on the asin values of the model: str(None) is "None".
normalize_asin(x) == IF x = NoneVal THEN "NONE" ELSE x

action_of_listing_for_review(status) ==
    CASE status = "listed" -> "update_price_stock"
      [] status = "catalog_match" -> "create_listing"
      [] status = "catalog_ambiguous" -> "create_listing"
      [] OTHER -> "create_product"

\* product_identify.py lines 85-92.
action_of(status) ==
    CASE status = "listed" -> "update_price_stock"
      [] status = "catalog_match" -> "create_listing"
      [] status = "catalog_ambiguous" -> "review"
      [] OTHER -> "create_product"

\* product_identify.py lines 75-103: the row built from resolve_asin's result.
ClassifyRow ==
    /\ rpc = "returned"
    /\ LET asin == normalize_asin(rres.asin)
           mine == asin # "" /\ asin \in cinv
           status == IF mine THEN "listed" ELSE rres.status
       IN  crow' = [existence |-> status, asin |-> asin, action |-> action_of(status),
                    my_seller_sku |-> IF mine THEN "MYSKU-" \o asin ELSE ""]
    /\ rpc' = "classified"
    /\ UNCHANGED <<rsimulate, rin, rcalls, rscored, rres, cinv>>

\* ============================================================= app_flask.py
\* Truthiness of a JSON string-or-null value.
Truthy(x) == x \notin {NoneVal, ""}

\* str(x).strip().upper() on the sku strings of the model.
sku_key(s) ==
    CASE s = "S1" -> "S1"
      [] s = "S2" -> "S2"
      [] s = "s2" -> "S2"
      [] s = "S9" -> "S9"
      [] OTHER -> ""

\* str(x).strip().casefold() on the brand strings of the model.
casefold(s) ==
    CASE s = "Acme" -> "acme"
      [] s = "ACME" -> "acme"
      [] s = " acme " -> "acme"
      [] s = "Other" -> "other"
      [] OTHER -> ""

\* One entry of the asin_options JSON list.
Option(asin, brand) == [asin |-> asin, brand |-> brand]

\* The asin_options values of the model, parsed ([] also stands for a value
\* that json.loads rejects).
StoredOptions ==
    {<<>>,
     <<Option("B0XXX1", "Other"), Option("B0YYY2", "ACME")>>,
     <<Option("B0XXX1", "Other"), Option("B0ZZZ3", "")>>,
     <<Option(NoneVal, "ACME"), Option("B0YYY2", "Other")>>,
     <<Option("B0XXX1", "Other"), Option(NoneVal, "ACME"), Option("B0YYY2", " acme ")>>}

\* One row of data/produtos_classificados.csv.
Row(sku, brand, existence, asin, action, options) ==
    [sku |-> sku, brand |-> brand, existence |-> existence, asin |-> asin,
     action |-> action, options |-> options]

RowPool ==
    {Row("S1", "Acme", "catalog_ambiguous", "NONE", "review", o) : o \in StoredOptions}
    \cup {Row("S1", "Acme", "listed", "B0LLL4", "update_price_stock", <<>>),
          Row("S1", "Acme", "catalog_match", "B0XXX1", "create_listing",
              <<Option("B0XXX1", "Other"), Option("B0YYY2", "ACME")>>),
          Row("S2", "Acme", "catalog_ambiguous", "NONE", "review",
              <<Option("B0XXX1", "Other"), Option("B0YYY2", "ACME")>>),
          Row("S2", "Acme", "catalog_ambiguous", "NONE", "review",
              <<Option(NoneVal, "ACME"), Option("B0YYY2", "Other")>>),
          Row("S2", "Acme", "not_found", "NONE", "create_product", <<>>)}

\* os.path.exists(p) is false.
NoFile == <<Row("<nofile>", "", "", "", "", <<>>)>>
\* The request ended without df.to_csv.
NoWrite == <<Row("<nowrite>", "", "", "", "", <<>>)>>

Files == SeqsUpTo(RowPool, MaxRows) \cup {NoFile}

\* The request threads of the server.
Handlers == {1, 2}

Request(op, sku, asin, skus) == [op |-> op, sku |-> sku, asin |-> asin, skus |-> skus]
NoRequest == Request("none", "", "", <<>>)

ApproveRequests ==
    {Request("approve_asin", "", "B0NEW9", <<>>), Request("approve_asin", "S1", "", <<>>),
     Request("approve_asin", "S1", "B0NEW9", <<>>), Request("approve_asin", "s2", "B0NEW9", <<>>),
     Request("approve_asin", "S9", "B0NEW9", <<>>)}

BulkRequests ==
    {Request("bulk_approve", "", "", k) :
        k \in {<<>>, <<"S1">>, <<"s2">>, <<"S1", "s2">>, <<"S9">>}}

\* mask: the positions of the rows whose sku equals the requested one.
SkuMask(df, sku) == {i \in 1..Len(df) : sku_key(df[i].sku) = sku_key(sku)}

\* df[mask].iloc[0]
FirstOf(mask) == CHOOSE i \in mask : \A j \in mask : i <= j

\* df.loc[mask, ["asin", "existence", "action"]] = asin, "catalog_match", "create_listing"
Promote(df, mask, asin) ==
    [i \in 1..Len(df) |->
        IF i \in mask
          THEN [df[i] EXCEPT !.asin = asin, !.existence = "catalog_match",
                             !.action = "create_listing"]
        ELSE df[i]]

\* bulk_approve lines 244-247: the first option of the product's brand that has an asin.
RECURSIVE brand_pick(_, _, _)
brand_pick(options, brand, i) ==
    IF i > Len(options) THEN NoneVal
    ELSE IF casefold(options[i].brand) = brand /\ Truthy(options[i].asin)
      THEN options[i].asin
    ELSE brand_pick(options, brand, i + 1)

pick_first_option(row) == IF row.options # <<>> THEN row.options[1].asin ELSE NoneVal
\* bulk_approve lines 239-248: pick.
pick_of(row) ==
    LET bp == brand_pick(row.options, casefold(row.brand), 1)
    IN  IF ~Truthy(bp) /\ row.options # <<>> THEN row.options[1].asin ELSE bp

\* bulk_approve lines 234-253: the body of the loop for one sku.
approve_one(df, sku) ==
    LET mask == SkuMask(df, sku)
    IN  IF mask = {} THEN df
        ELSE IF df[FirstOf(mask)].existence # "catalog_ambiguous" THEN df
        ELSE IF Truthy(pick_of(df[FirstOf(mask)]))
          THEN Promote(df, mask, pick_of(df[FirstOf(mask)]))
        ELSE df

\* bulk_approve lines 233-253: the loop over skus.
RECURSIVE approve_all(_, _, _)
approve_all(df, skus, i) ==
    IF i > Len(skus) THEN df ELSE approve_all(approve_one(df, skus[i]), skus, i + 1)

ApproveInit ==
    /\ cfile \in Files
    /\ hpc = [h \in Handlers |-> "idle"]
    /\ hreq = [h \in Handlers |-> NoRequest]
    /\ hdf = [h \in Handlers |-> <<>>]
    /\ hwrote = [h \in Handlers |-> NoWrite]
    /\ hresp = [h \in Handlers |-> 0]

HandlersIdle ==
    /\ hpc = [h \in Handlers |-> "off"]
    /\ hreq = [h \in Handlers |-> NoRequest]
    /\ hdf = [h \in Handlers |-> <<>>]
    /\ hwrote = [h \in Handlers |-> NoWrite]
    /\ hresp = [h \in Handlers |-> 0]

ApproveIdle == cfile = <<>> /\ HandlersIdle

\* approve_asin lines 203-211: validation and pd.read_csv.
ApproveAsinRead(h) ==
    /\ hpc[h] = "idle"
    /\ \E req \in ApproveRequests :
         /\ hreq' = [hreq EXCEPT ![h] = req]
         /\ IF sku_key(req.sku) = "" \/ req.asin = "" \/ cfile = NoFile
              THEN /\ hpc' = [hpc EXCEPT ![h] = "done"]
                   /\ hresp' = [hresp EXCEPT ![h] = 400]
                   /\ hdf' = hdf
            ELSE /\ hpc' = [hpc EXCEPT ![h] = "loaded"]
                 /\ hdf' = [hdf EXCEPT ![h] = cfile]
                 /\ hresp' = hresp
    /\ UNCHANGED <<cfile, hwrote>>

\* approve_asin lines 212-219: the update and df.to_csv.
ApproveAsinWrite(h) ==
    /\ hpc[h] = "loaded"
    /\ hreq[h].op = "approve_asin"
    /\ hpc' = [hpc EXCEPT ![h] = "done"]
    /\ IF SkuMask(hdf[h], hreq[h].sku) = {}
         THEN /\ hresp' = [hresp EXCEPT ![h] = 404]
              /\ UNCHANGED <<cfile, hwrote>>
       ELSE /\ cfile' = Promote(hdf[h], SkuMask(hdf[h], hreq[h].sku), hreq[h].asin)
            /\ hwrote' = [hwrote EXCEPT ![h] = cfile']
            /\ hresp' = [hresp EXCEPT ![h] = 200]
    /\ UNCHANGED <<hreq, hdf>>

\* bulk_approve lines 223-231: validation and pd.read_csv.
BulkApproveRead(h) ==
    /\ hpc[h] = "idle"
    /\ \E req \in BulkRequests :
         /\ hreq' = [hreq EXCEPT ![h] = req]
         /\ IF req.skus = <<>> \/ cfile = NoFile
              THEN /\ hpc' = [hpc EXCEPT ![h] = "done"]
                   /\ hresp' = [hresp EXCEPT ![h] = 400]
                   /\ hdf' = hdf
            ELSE /\ hpc' = [hpc EXCEPT ![h] = "loaded"]
                 /\ hdf' = [hdf EXCEPT ![h] = cfile]
                 /\ hresp' = hresp
    /\ UNCHANGED <<cfile, hwrote>>

\* bulk_approve lines 232-254: the loop and df.to_csv.
BulkApproveWrite(h) ==
    /\ hpc[h] = "loaded"
    /\ hreq[h].op = "bulk_approve"
    /\ hpc' = [hpc EXCEPT ![h] = "done"]
    /\ cfile' = approve_all(hdf[h], hreq[h].skus, 1)
    /\ hwrote' = [hwrote EXCEPT ![h] = cfile']
    /\ hresp' = [hresp EXCEPT ![h] = 200]
    /\ UNCHANGED <<hreq, hdf>>

\* ------------------------------------------------- sync_from_classified
\* One entry of data["rows"].
SelRow(sku, asin) == [sku |-> sku, asin |-> asin]

\* The rows a client posts from the review table: each row of the file is left
\* out, posted as shown, or posted without its asin.
RECURSIVE selection(_, _, _)
selection(df, pick, i) ==
    IF i > Len(df) THEN <<>>
    ELSE (IF pick[i] = "skip" THEN <<>>
          ELSE <<SelRow(df[i].sku, IF pick[i] = "noasin" THEN "" ELSE df[i].asin)>>)
         \o selection(df, pick, i + 1)

\* floors / stocks: floor_price (cents) and stock of data/produtos_processados.csv.
proc_floor(key) == IF key = "S1" THEN 1200 ELSE 0
proc_stock(key) == IF key = "S1" THEN 5 ELSE 0

\* cfg["pricing_engine"]["undercut_step"], in cents.
UndercutStep == 1

\* What cli.get_listing_offers can do: raise, or return offers (LandedPrice, cents).
Offers(raised, landed) == [raised |-> raised, landed |-> landed]
OfferAnswers ==
    {Offers(TRUE, <<>>), Offers(FALSE, <<>>), Offers(FALSE, <<0>>),
     Offers(FALSE, <<1500, 1300>>)}

min_landed(l) == CHOOSE m \in {l[i] : i \in 1..Len(l)} : \A i \in 1..Len(l) : m <= l[i]

\* Lines 319-334: the selling price of one selected row.
final_price(floor, ans) ==
    LET min_comp == IF ans.raised \/ ans.landed = <<>> THEN 0 ELSE min_landed(ans.landed)
    IN  IF min_comp > 0 THEN Max(min_comp - UndercutStep, floor) ELSE floor

SyncItem(sku, asin, price, stock) ==
    [sku |-> sku, asin |-> asin, selling_price |-> price, stock |-> stock]

\* Lines 308-335: the loop over rows_sel.
RECURSIVE build_items(_, _, _)
build_items(rows, ans, i) ==
    IF i > Len(rows) THEN <<>>
    ELSE (IF rows[i].sku = "" \/ rows[i].asin = "" THEN <<>>
          ELSE <<SyncItem(rows[i].sku, rows[i].asin,
                          final_price(proc_floor(sku_key(rows[i].sku)), ans),
                          proc_stock(sku_key(rows[i].sku)))>>)
         \o build_items(rows, ans, i + 1)

FeedEntry(status, feedId) == [feedId |-> feedId, status |-> status]
Summary(pricing, inventory, n) ==
    [pricing |-> pricing, inventory |-> inventory, prices_sent |-> n, stock_sent |-> n]
NoSummary == Summary(FeedEntry("", NoneVal), FeedEntry("", NoneVal), 0)

\* A feed job as the marketplace holds it once _create_feed succeeded.
Feed(feedType, feedId, skus) == [feedType |-> feedType, feedId |-> feedId, skus |-> skus]
FeedSkus(items) == [i \in 1..Len(items) |-> items[i].sku]
NewFeedId(market) == IF market = <<>> THEN "FEED-1" ELSE "FEED-2"

SyncInit ==
    /\ spc = "start"
    /\ ssimulate \in BOOLEAN
    /\ sreq = <<>>
    /\ sitems = <<>>
    /\ smarket = <<>>
    /\ ssummary = NoSummary
    /\ sresp = 0

SyncIdle ==
    /\ spc = "idle"
    /\ ssimulate = TRUE
    /\ sreq = <<>>
    /\ sitems = <<>>
    /\ smarket = <<>>
    /\ ssummary = NoSummary
    /\ sresp = 0

\* Lines 283-353: the request up to the simulated summary or the first feed call.
SyncFromClassified ==
    /\ spc = "start"
    /\ \E pick \in [1..Len(cfile) -> {"skip", "row", "noasin"}], ans \in OfferAnswers :
         LET rows == selection(cfile, pick, 1)
             items == build_items(rows, ans, 1)
         IN  /\ sreq' = rows
             /\ IF rows = <<>>
                  THEN /\ spc' = "done" /\ sresp' = 400
                       /\ UNCHANGED <<sitems, ssummary>>
                ELSE IF items = <<>>
                  THEN /\ spc' = "done" /\ sresp' = 400
                       /\ UNCHANGED <<sitems, ssummary>>
                ELSE IF ssimulate
                  THEN /\ spc' = "done" /\ sresp' = 200
                       /\ sitems' = items
                       /\ ssummary' = Summary(FeedEntry("SIMULATED", NoneVal),
                                              FeedEntry("SIMULATED", NoneVal), Len(items))
                ELSE /\ spc' = "pricing_doc" /\ sresp' = 0
                     /\ sitems' = items
                     /\ ssummary' = ssummary
    /\ UNCHANGED <<ssimulate, smarket>>

\* The except branch of lines 356-384: any helper raising ends the request.
SyncFailed ==
    /\ spc' = "done"
    /\ sresp' = 500
    /\ UNCHANGED <<ssimulate, sreq, sitems, smarket, ssummary>>

\* cli._create_feed_document(), lines 358 and 364.
SyncCreateFeedDocument ==
    /\ spc \in {"pricing_doc", "inventory_doc"}
    /\ \/ /\ spc' = (IF spc = "pricing_doc" THEN "pricing_upload" ELSE "inventory_upload")
          /\ UNCHANGED <<ssimulate, sreq, sitems, smarket, ssummary, sresp>>
       \/ SyncFailed

\* cli._upload_feed_document(doc, tsv), lines 359 and 365.
SyncUploadFeedDocument ==
    /\ spc \in {"pricing_upload", "inventory_upload"}
    /\ \/ /\ spc' = (IF spc = "pricing_upload" THEN "pricing_feed" ELSE "inventory_feed")
          /\ UNCHANGED <<ssimulate, sreq, sitems, smarket, ssummary, sresp>>
       \/ SyncFailed

\* cli._create_feed(feedType, feedDocumentId), lines 360 and 366, and after the
\* second one the summary of lines 368-380.
SyncCreateFeed ==
    /\ spc \in {"pricing_feed", "inventory_feed"}
    /\ \/ /\ spc = "pricing_feed"
          /\ smarket' = Append(smarket, Feed("POST_PRODUCT_PRICING_DATA",
                                             NewFeedId(smarket), FeedSkus(sitems)))
          /\ spc' = "inventory_doc"
          /\ UNCHANGED <<ssimulate, sreq, sitems, ssummary, sresp>>
       \/ /\ spc = "inventory_feed"
          /\ smarket' = Append(smarket, Feed("POST_INVENTORY_AVAILABILITY_DATA",
                                             NewFeedId(smarket), FeedSkus(sitems)))
          /\ ssummary' = Summary(FeedEntry("SUBMITTED", smarket[1].feedId),
                                 FeedEntry("SUBMITTED", NewFeedId(smarket)), Len(sitems))
          /\ spc' = "done"
          /\ sresp' = 200
          /\ UNCHANGED <<ssimulate, sreq, sitems>>
       \/ SyncFailed

\* ========================================================== sync_workflow.py
\* self._exp = time.time() + expires_in - 60 (asin_resolver.py line 74).
RefreshMargin == 60
\* j.get("expires_in", 3600)
ExpiresIn == 3600

\* How long a signed call can take, in seconds.
Ticks == {0, 60, 3540}

Token(has, exp) == [has |-> has, exp |-> exp]
\* SpaSession.__init__: self._token = None, self._exp = 0.
NoToken == Token(FALSE, 0)

\* `if self._token and time.time() < self._exp: return self._token`
token_cached(tok, now) == tok.has /\ now < tok.exp

\* One token exchange: when it happened and the expires_in it returned.
Exchange(at, expires_in) == [at |-> at, expires_in |-> expires_in]

Resolution(status, asin) == [status |-> status, asin |-> asin]
NoResolution == Resolution("none", "")

\* What resolve_asin can return to main.
ResolveOutcomes ==
    {Resolution("listed", "B0AAA1"), Resolution("catalog_match", "B0AAA1"),
     Resolution("catalog_match", NoneVal), Resolution("catalog_ambiguous", NoneVal),
     Resolution("not_found", NoneVal)}

\* asin = (asin_info.get("asin") or "").strip(); "" when resolve_asin raised.
asin_of(res) == IF res.status = "raised" \/ ~Truthy(res.asin) THEN "" ELSE res.asin

\* Lines 134-137.
sync_action(asin) == IF asin # "" THEN "PATCH" ELSE "PUT"

executes_always(dry_run) == TRUE
\* Line 146: `if dry_run:` prints only; the else branch makes the call.
executes(dry_run) == ~dry_run

\* One patch_listings_item / put_listings_item call of main.
Write(row, fn, outcome) == [row |-> row, fn |-> fn, outcome |-> outcome]

MainInit ==
    /\ mpc = "row"
    /\ mdry \in BOOLEAN
    /\ msimulate \in BOOLEAN
    /\ mn \in 1..MaxRunRows
    /\ mi = 1
    /\ mk = 0
    /\ mtok = NoToken
    /\ mnow = 0
    /\ mres = NoResolution
    /\ mlog = <<>>
    /\ mwrites = <<>>
    /\ mout = <<>>

MainIdle ==
    /\ mpc = "idle"
    /\ mdry = TRUE
    /\ msimulate = TRUE
    /\ mn = 1
    /\ mi = 1
    /\ mk = 0
    /\ mtok = NoToken
    /\ mnow = 0
    /\ mres = NoResolution
    /\ mlog = <<>>
    /\ mwrites = <<>>
    /\ mout = <<>>

\* sync_workflow.py line 126 entering resolve_asin, asin_resolver.py line 140:
\* a new SpaSession for this row.
MainResolveStart ==
    /\ mpc = "row"
    /\ mpc' = "resolving"
    /\ mtok' = NoToken
    /\ mk' = 0
    /\ UNCHANGED <<mdry, msimulate, mn, mi, mnow, mres, mlog, mwrites, mout>>

\* One SpaSession._signed call of the running resolve_asin (asin_resolver.py
\* lines 77-102 with _get_token, lines 58-75); an exception leaves resolve_asin
\* and is caught at sync_workflow.py line 131.
MainSignedCall ==
    /\ mpc = "resolving"
    /\ mk < MaxLookups
    /\ mk' = mk + 1
    /\ \E tick \in Ticks, token_ok \in BOOLEAN, request_ok \in BOOLEAN :
         /\ mnow' = mnow + tick
         /\ IF msimulate \/ token_cached(mtok, mnow)
              THEN UNCHANGED <<mtok, mlog>>
            ELSE IF token_ok
              THEN /\ mtok' = Token(TRUE, mnow + ExpiresIn - RefreshMargin)
                   /\ mlog' = Append(mlog, Exchange(mnow, ExpiresIn))
            ELSE UNCHANGED <<mtok, mlog>>
         /\ IF ~msimulate /\ (~request_ok \/ (~token_cached(mtok, mnow) /\ ~token_ok))
              THEN mpc' = "execute" /\ mres' = Resolution("raised", "")
            ELSE mpc' = mpc /\ mres' = mres
    /\ UNCHANGED <<mdry, msimulate, mn, mi, mwrites, mout>>

\* resolve_asin returning its dict (asin_resolver.py lines 151-212).
MainResolveEnd ==
    /\ mpc = "resolving"
    /\ mk >= 1
    /\ \E res \in ResolveOutcomes :
         /\ msimulate => res = Resolution("not_found", NoneVal)
         /\ mres' = res
    /\ mpc' = "execute"
    /\ UNCHANGED <<mdry, msimulate, mn, mi, mk, mtok, mnow, mlog, mwrites, mout>>

\* sync_workflow.py lines 133-182: the action, the call and the report row. The
\* keyword arguments main passes (seller_id, marketplace_id, price, ...) are not
\* parameters of amazon_client.patch_listings_item / put_listings_item, so the
\* call raises TypeError before any request; line 172 catches it.
MainExecute ==
    /\ mpc = "execute"
    /\ mwrites' = IF executes(mdry)
                    THEN Append(mwrites, Write(mi, sync_action(asin_of(mres)), "TypeError"))
                  ELSE mwrites
    /\ mout' = Append(mout, [row |-> mi,
                             asin |-> IF asin_of(mres) # "" THEN asin_of(mres) ELSE "n/a"])
    /\ mi' = mi + 1
    /\ mpc' = IF mi = mn THEN "report" ELSE "row"
    /\ UNCHANGED <<mdry, msimulate, mn, mk, mtok, mnow, mres, mlog>>

\* sync_workflow.py lines 184-189: data/sync_result.csv is written.
MainReport ==
    /\ mpc = "report"
    /\ mpc' = "done"
    /\ UNCHANGED <<mdry, msimulate, mn, mi, mk, mtok, mnow, mres, mlog, mwrites, mout>>

\* ================================== amazon_reports.py: the session operations
\* What SpReportsSession._signed hands back: the R object of simulation (status
\* 200, json() = {"simulated": True}, no raise_for_status method), a 2xx
\* response, a non-2xx response, or an exception out of requests.request.
Signed(kind, reportId, url, alg) ==
    [kind |-> kind, reportId |-> reportId, url |-> url, alg |-> alg]
SimulatedSigned == Signed("simulated", "", "", "")

\* Answers to POST /reports: with or without the reportId key.
CreateAnswers ==
    {Signed("ok", "REP-1", "", ""), Signed("ok", "", "", ""),
     Signed("http_error", "", "", ""), Signed("transport_error", "", "", "")}

\* Answers to GET /documents/{id}.
DocumentAnswers ==
    {Signed("ok", "", "https://doc", ""), Signed("ok", "", "https://doc", "GZIP"),
     Signed("http_error", "", "", ""), Signed("transport_error", "", "", "")}

\* Answers of requests.get(url) in download_report: rr.content is plain text,
\* a gzip stream, bytes that are no gzip stream, or no bytes at all.
Download(kind, content) == [kind |-> kind, content |-> content]
Downloads ==
    {Download("ok", c) : c \in {"plain", "gzip", "garbage", "empty"}}
    \cup {Download("http_error", ""), Download("transport_error", "")}

SignedAnswers(simulate, real) == IF simulate THEN {SimulatedSigned} ELSE real

OpReturned(value) == [kind |-> "returned", value |-> value, error |-> ""]
OpRaised(error) == [kind |-> "raised", value |-> "", error |-> error]

\* r = self._signed(...); r.raise_for_status(): "" when it passes.
signed_error(resp) ==
    CASE resp.kind = "transport_error" -> "ConnectionError"
      [] resp.kind = "simulated" -> "AttributeError"
      [] resp.kind = "http_error" -> "HTTPError"
      [] OTHER -> ""

\* create_report, lines 67-74.
create_report(resp) ==
    IF signed_error(resp) # "" THEN OpRaised(signed_error(resp))
    ELSE IF resp.reportId = "" THEN OpRaised("KeyError")
    ELSE OpReturned(resp.reportId)

\* get_report, lines 76-80, on the answers of the poll loop.
get_report(simulate, resp) ==
    IF simulate THEN OpRaised(signed_error(SimulatedSigned))
    ELSE IF get_report_raises(resp)
      THEN OpRaised(IF resp.kind = "http_error" THEN "HTTPError" ELSE "ConnectionError")
    ELSE OpReturned(resp.status)

\* get_report_document, lines 95-99: the url and the compression algorithm.
get_report_document(resp) ==
    IF signed_error(resp) # "" THEN OpRaised(signed_error(resp))
    ELSE OpReturned(<<resp.url, resp.alg>>)

\* gzip.decompress, then gzip.GzipFile(...).read() on the same bytes.
\* b"" decompresses to b""; bytes that are no gzip stream raise from both.
gunzip(content) ==
    CASE content = "gzip" -> OpReturned("text")
      [] content = "empty" -> OpReturned("empty")
      [] OTHER -> OpRaised("BadGzipFile")

\* download_report, lines 101-113.
download_report(resp, rr) ==
    IF get_report_document(resp).kind = "raised" THEN get_report_document(resp)
    ELSE IF rr.kind = "transport_error" THEN OpRaised("ConnectionError")
    ELSE IF rr.kind = "http_error" THEN OpRaised("HTTPError")
    ELSE IF resp.alg = "GZIP" THEN gunzip(rr.content)
    ELSE OpReturned(rr.content)

OpCall(op, outcome) == [op |-> op, outcome |-> outcome]

SessionOps == {"create", "get", "wait", "document", "download"}

SessionInit ==
    /\ fpc \in SessionOps
    /\ flog = <<>>

SessionIdle ==
    /\ fpc = "idle"
    /\ flog = <<>>

AfterCall(outcome, next) == IF outcome.kind = "raised" THEN "raised" ELSE next

\* sess.create_report(...), as at line 152; on success wait_report comes next.
SessionCreateReport ==
    /\ fpc = "create"
    /\ \E resp \in SignedAnswers(wsimulate, CreateAnswers) :
         /\ flog' = Append(flog, OpCall("create_report", create_report(resp)))
         /\ fpc' = AfterCall(create_report(resp), "wait")

\* sess.get_report(report_id) called on its own.
SessionGetReport ==
    /\ fpc = "get"
    /\ \E resp \in PollResponses :
         /\ flog' = Append(flog, OpCall("get_report", get_report(wsimulate, resp)))
         /\ fpc' = AfterCall(get_report(wsimulate, resp), "done")

\* sess.wait_report(...) came back, as at line 153, followed by the checks of
\* lines 154-160 on its payload.
SessionWaited ==
    /\ fpc = "wait"
    /\ wpc \in {"returned", "raised"}
    /\ LET outcome ==
             IF wpc = "raised"
               THEN OpRaised(IF Last(wpolls).kind = "http_error" THEN "HTTPError"
                             ELSE "ConnectionError")
             ELSE OpReturned(<<wresult.status, wresult.doc>>)
       IN  /\ flog' = Append(flog, OpCall("wait_report", outcome))
           /\ fpc' = IF outcome.kind = "raised" THEN "raised"
                     ELSE IF wresult.status # "DONE" \/ wresult.doc = "" THEN "raised"
                     ELSE "download"

\* sess.get_report_document(doc_id) called on its own.
SessionGetReportDocument ==
    /\ fpc = "document"
    /\ \E resp \in SignedAnswers(wsimulate, DocumentAnswers) :
         /\ flog' = Append(flog, OpCall("get_report_document", get_report_document(resp)))
         /\ fpc' = AfterCall(get_report_document(resp), "done")

\* sess.download_report(doc_id), as at line 161.
SessionDownloadReport ==
    /\ fpc = "download"
    /\ \E resp \in SignedAnswers(wsimulate, DocumentAnswers), rr \in Downloads :
         /\ flog' = Append(flog, OpCall("download_report", download_report(resp, rr)))
         /\ fpc' = AfterCall(download_report(resp, rr), "done")

\* ================================= product_identify.py: the run over all rows
\* What the resolve_asin call of line 72 can do: return one of its results, or
\* let an exception of a signed call escape, raised by the request itself
\* ("transport") or by the token exchange ("token"); nothing in resolve_asin or
\* in the loop of classify_products catches it.
ClassifyOutcomes(simulate) ==
    IF simulate THEN {Resolution("not_found", NoneVal)}
    ELSE ResolveOutcomes \cup {Resolution("raised", "transport"), Resolution("raised", "token")}

\* Lines 75-103: the row appended for one resolution.
classified_row(res, inv) ==
    LET asin == normalize_asin(res.asin)
        mine == asin # "" /\ asin \in inv
        status == IF mine THEN "listed" ELSE res.status
    IN  [existence |-> status, asin |-> asin, action |-> action_of(status),
         my_seller_sku |-> IF mine THEN "MYSKU-" \o asin ELSE ""]

ClassifyInit ==
    /\ kpc = "row"
    /\ ksimulate \in BOOLEAN
    /\ kn \in 1..MaxRunRows
    /\ ki = 1
    /\ kinv \in Inventories
    /\ kout = <<>>
    /\ kwritten = FALSE

ClassifyIdle ==
    /\ kpc = "idle"
    /\ ksimulate = TRUE
    /\ kn = 1
    /\ ki = 1
    /\ kinv = {}
    /\ kout = <<>>
    /\ kwritten = FALSE

\* Lines 66-104: one pass of the loop over df.iterrows().
ClassifyProductsRow ==
    /\ kpc = "row"
    /\ \E res \in ClassifyOutcomes(ksimulate) :
         IF res.status = "raised"
           THEN /\ kpc' = "raised_" \o res.asin
                /\ UNCHANGED <<ki, kout>>
         ELSE /\ kout' = Append(kout, classified_row(res, kinv))
              /\ ki' = ki + 1
              /\ kpc' = IF ki = kn THEN "write" ELSE "row"
    /\ UNCHANGED <<ksimulate, kn, kinv, kwritten>>

\* Lines 105-109: out_df.to_csv(output_csv).
ClassifyProductsWrite ==
    /\ kpc = "write"
    /\ kpc' = "done"
    /\ kwritten' = TRUE
    /\ UNCHANGED <<ksimulate, kn, ki, kinv, kout>>

\* ======================================== amazon_reports.py: _safe_replace
\* A path as the part before its extension and the extension.
Path(stem, ext) == [stem |-> stem, ext |-> ext]

\* The destinations the module passes: out_csv (lines 142, 206), raw_path (163).
Destinations == {Path("data/my_inventory", ".csv"), Path("data/my_inventory_raw", ".tsv")}

\* tmp_csv = out_csv + ".tmp", tmp_raw = raw_path + ".tmp".
tmp_of(dst) == Path(dst.stem, dst.ext \o ".tmp")

\* int(time.time()) as text.
Now == "1700000000"

\* A fallback name that is the destination itself.
alt_same(dst, now) == dst

\* Line 124: dst_final.replace(".csv", f"_{ts}.csv").replace(".tsv", f"_{ts}.tsv").
alt_name(dst, now) ==
    IF dst.ext \in {".csv", ".tsv"} THEN Path(dst.stem \o "_" \o now, dst.ext) ELSE dst

PathsOf(dst) == {tmp_of(dst), dst, alt_name(dst, Now)}

\* os.replace(src, dst) when it succeeds: dst takes the content of src, src is gone.
os_replace(files, src, dst) ==
    [p \in DOMAIN files |-> IF p = dst THEN files[src]
                            ELSE IF p = src THEN "absent" ELSE files[p]]

\* The temporary file is written; the destination exists from an earlier run or
\* not; nothing exists under the alternate name.
ReplaceInit ==
    /\ ypc = "try"
    /\ yretries \in 0..MaxRetries
    /\ ydst \in Destinations
    /\ yattempts = 0
    /\ ysleeps = 0
    /\ \E old \in {"absent", "old"} :
         yfiles = [p \in PathsOf(ydst) |->
                     IF p = tmp_of(ydst) THEN "new" ELSE IF p = ydst THEN old ELSE "absent"]
    /\ yerr = ""

ReplaceIdle ==
    /\ ypc = "idle"
    /\ yretries = 0
    /\ ydst = Path("", "")
    /\ yattempts = 0
    /\ ysleeps = 0
    /\ yfiles = [p \in {Path("", "")} |-> "absent"]
    /\ yerr = ""

\* One pass of the for loop, lines 117-122: os.replace succeeds and the function
\* returns, or another process holds the destination and the loop sleeps.
SafeReplaceTry ==
    /\ ypc = "try"
    /\ yattempts < yretries
    /\ yattempts' = yattempts + 1
    /\ \E locked \in BOOLEAN :
         IF locked
           THEN /\ ysleeps' = ysleeps + 1
                /\ UNCHANGED <<ypc, yfiles>>
           ELSE /\ yfiles' = os_replace(yfiles, tmp_of(ydst), ydst)
                /\ ypc' = "returned"
                /\ UNCHANGED ysleeps
    /\ UNCHANGED <<yretries, ydst, yerr>>

\* Lines 124-126, once the range is exhausted: os.replace to the alternate name,
\* then the PermissionError. A lock is held on the destination only, so this
\* os.replace can fail only if the alternate name is the destination.
SafeReplaceAlt ==
    /\ ypc = "try"
    /\ yattempts = yretries
    /\ LET alt == alt_name(ydst, Now)
       IN  \E locked \in (IF alt = ydst THEN BOOLEAN ELSE {FALSE}) :
             IF locked
               THEN /\ yerr' = "PermissionError:os.replace"
                    /\ UNCHANGED yfiles
               ELSE /\ yerr' = "PermissionError:saved_as_alt"
                    /\ yfiles' = os_replace(yfiles, tmp_of(ydst), alt)
    /\ ypc' = "raised"
    /\ UNCHANGED <<yretries, ydst, yattempts, ysleeps>>

\* ================================== amazon_reports.py: fetch_my_inventory
\* How a _safe_replace call ends: the destination replaced and a return, or the
\* data saved under the alternate name and a PermissionError.
SafeReplaceOutcomes == {"replaced", "saved_as_alt"}

\* No check of the payload at all.
fetch_check_none(rep) == ""

\* Lines 154-160 on the payload of wait_report: the exception raised, "" if none.
fetch_check(rep) ==
    IF rep.status # "DONE" THEN "RuntimeError:not_done"
    ELSE IF rep.doc = "" THEN "RuntimeError:no_document_id"
    ELSE ""

\* Lines 170-173: raw.decode("utf-8", errors="ignore").splitlines() is empty for
\* an empty document; bytes that are no text still leave what decodes of them.
no_lines(raw) == raw = "empty"

FetchInit ==
    /\ gpc = "start"
    /\ gdocs = 0
    /\ graw = ""
    /\ grawfile = "old"
    /\ gcsvfile = "old"
    /\ galt = {}
    /\ gerr = ""

FetchIdle ==
    /\ gpc = "idle"
    /\ gdocs = 0
    /\ graw = ""
    /\ grawfile = "old"
    /\ gcsvfile = "old"
    /\ galt = {}
    /\ gerr = ""

\* Lines 137-152: the simulated inventory written and returned, or
\* sess.create_report(...) of the real run.
FetchStart ==
    /\ gpc = "start"
    /\ IF wsimulate
         THEN \E o \in SafeReplaceOutcomes :
                IF o = "replaced"
                  THEN /\ gcsvfile' = "new"
                       /\ gpc' = "returned"
                       /\ UNCHANGED <<galt, gerr>>
                  ELSE /\ galt' = galt \cup {"data/my_inventory.csv"}
                       /\ gpc' = "raised"
                       /\ gerr' = "PermissionError"
                       /\ UNCHANGED gcsvfile
         ELSE \E resp \in CreateAnswers :
                /\ gpc' = AfterCall(create_report(resp), "wait")
                /\ gerr' = create_report(resp).error
                /\ UNCHANGED <<gcsvfile, galt>>
    /\ UNCHANGED <<gdocs, graw, grawfile>>

\* Lines 153-160: wait_report came back; its exception propagates, a payload
\* that is not DONE or has no reportDocumentId raises RuntimeError.
FetchChecked ==
    /\ gpc = "wait"
    /\ wpc \in {"returned", "raised"}
    /\ IF wpc = "raised"
         THEN /\ gpc' = "raised"
              /\ gerr' = IF Last(wpolls).kind = "http_error" THEN "HTTPError"
                         ELSE "ConnectionError"
         ELSE IF fetch_check(wresult) # ""
           THEN /\ gpc' = "raised"
                /\ gerr' = fetch_check(wresult)
         ELSE /\ gpc' = "download"
              /\ UNCHANGED gerr
    /\ UNCHANGED <<gdocs, graw, grawfile, gcsvfile, galt>>

\* Line 161: raw = sess.download_report(doc_id).
FetchDownload ==
    /\ gpc = "download"
    /\ gdocs' = gdocs + 1
    /\ \E resp \in DocumentAnswers, rr \in Downloads :
         LET o == download_report(resp, rr)
         IN  /\ gpc' = AfterCall(o, "write_raw")
             /\ gerr' = o.error
             /\ graw' = o.value
    /\ UNCHANGED <<grawfile, gcsvfile, galt>>

\* Lines 163-167: the raw bytes written to the temporary file and moved.
FetchWriteRaw ==
    /\ gpc = "write_raw"
    /\ \E o \in SafeReplaceOutcomes :
         IF o = "replaced"
           THEN /\ grawfile' = "new"
                /\ gpc' = "parse"
                /\ UNCHANGED <<galt, gerr>>
           ELSE /\ galt' = galt \cup {"data/my_inventory_raw.tsv"}
                /\ gpc' = "raised"
                /\ gerr' = "PermissionError"
                /\ UNCHANGED grawfile
    /\ UNCHANGED <<gdocs, graw, gcsvfile>>

\* Lines 170-204: decode, split, RuntimeError for no line at all, else the rows.
FetchParse ==
    /\ gpc = "parse"
    /\ IF no_lines(graw)
         THEN /\ gpc' = "raised"
              /\ gerr' = "RuntimeError:empty"
         ELSE /\ gpc' = "write_csv"
              /\ UNCHANGED gerr
    /\ UNCHANGED <<gdocs, graw, grawfile, gcsvfile, galt>>

\* Lines 206-215: the CSV written to the temporary file and moved.
FetchWriteCsv ==
    /\ gpc = "write_csv"
    /\ \E o \in SafeReplaceOutcomes :
         IF o = "replaced"
           THEN /\ gcsvfile' = "new"
                /\ gpc' = "returned"
                /\ UNCHANGED <<galt, gerr>>
           ELSE /\ galt' = galt \cup {"data/my_inventory.csv"}
                /\ gpc' = "raised"
                /\ gerr' = "PermissionError"
                /\ UNCHANGED gcsvfile
    /\ UNCHANGED <<gdocs, graw, grawfile>>

\* =========================================================== specifications
\* The variables each specification leaves alone.
NotWait == <<pvars, rvars, avars, svars, mvars, fvars, kvars, yvars, gvars>>
NotPricing == <<wvars, rvars, avars, svars, mvars, fvars, kvars, yvars, gvars>>
NotResolve == <<wvars, pvars, avars, svars, mvars, fvars, kvars, yvars, gvars>>
NotApprove == <<wvars, pvars, rvars, svars, mvars, fvars, kvars, yvars, gvars>>
NotSync == <<wvars, pvars, rvars, hpc, hreq, hdf, hwrote, hresp, mvars, fvars, kvars, yvars, gvars>>
NotSession == <<pvars, rvars, avars, svars, mvars, kvars, yvars, gvars>>
NotClassify == <<wvars, pvars, rvars, avars, svars, mvars, fvars, yvars, gvars>>
NotReplace == <<wvars, pvars, rvars, avars, svars, mvars, fvars, kvars, gvars>>
NotFetch == <<pvars, rvars, avars, svars, mvars, fvars, kvars, yvars>>
NotMain == <<wvars, pvars, rvars, avars, svars, fvars, kvars, yvars, gvars>>

InitWait == WaitInit /\ PricingIdle /\ ResolveIdle /\ ApproveIdle /\ SyncIdle /\ MainIdle /\ SessionIdle /\ ClassifyIdle /\ ReplaceIdle /\ FetchIdle
NextWait ==
    \/ WaitReportCall /\ UNCHANGED NotWait
    \/ WaitReportPoll /\ UNCHANGED NotWait
    \/ WaitReportSleep /\ UNCHANGED NotWait
SpecWait == InitWait /\ [][NextWait]_vars
\* The same call with its thread running: get_report answers (or raises) and
\* time.sleep returns, so a step that is possible is eventually taken.
SpecWaitFair == InitWait /\ [][NextWait]_vars /\ WF_vars(NextWait)

InitPricing == PricingInit /\ WaitIdle /\ ResolveIdle /\ ApproveIdle /\ SyncIdle /\ MainIdle /\ SessionIdle /\ ClassifyIdle /\ ReplaceIdle /\ FetchIdle
NextPricing ==
    \/ CallCalcFloorPrice /\ UNCHANGED NotPricing
    \/ CallCalcFinalPrice /\ UNCHANGED NotPricing
SpecPricing == InitPricing /\ [][NextPricing]_vars

InitResolve == ResolveInit /\ WaitIdle /\ PricingIdle /\ ApproveIdle /\ SyncIdle /\ MainIdle /\ SessionIdle /\ ClassifyIdle /\ ReplaceIdle /\ FetchIdle
NextResolve ==
    \/ ResolveListing /\ UNCHANGED NotResolve
    \/ ResolveEan /\ UNCHANGED NotResolve
    \/ ResolveKeywordsBrand /\ UNCHANGED NotResolve
    \/ ResolveKeywordsAll /\ UNCHANGED NotResolve
    \/ ClassifyRow /\ UNCHANGED NotResolve
SpecResolve == InitResolve /\ [][NextResolve]_vars

\* The approval handlers, each request on a thread of its own.
InitApprove == ApproveInit /\ WaitIdle /\ PricingIdle /\ ResolveIdle /\ SyncIdle /\ MainIdle /\ SessionIdle /\ ClassifyIdle /\ ReplaceIdle /\ FetchIdle
NextApprove ==
    \/ (\E h \in Handlers : ApproveAsinRead(h)) /\ UNCHANGED NotApprove
    \/ (\E h \in Handlers : ApproveAsinWrite(h)) /\ UNCHANGED NotApprove
    \/ (\E h \in Handlers : BulkApproveRead(h)) /\ UNCHANGED NotApprove
    \/ (\E h \in Handlers : BulkApproveWrite(h)) /\ UNCHANGED NotApprove
SpecApprove == InitApprove /\ [][NextApprove]_vars

\* One sync_from_classified request over the rows of the classification file.
InitSync ==
    /\ SyncInit /\ WaitIdle /\ PricingIdle /\ ResolveIdle /\ HandlersIdle /\ MainIdle
    /\ SessionIdle /\ ClassifyIdle /\ ReplaceIdle /\ FetchIdle
    /\ cfile \in SeqsUpTo(RowPool, MaxRows)
NextSync ==
    \/ SyncFromClassified /\ UNCHANGED NotSync /\ UNCHANGED cfile
    \/ SyncCreateFeedDocument /\ UNCHANGED NotSync /\ UNCHANGED cfile
    \/ SyncUploadFeedDocument /\ UNCHANGED NotSync /\ UNCHANGED cfile
    \/ SyncCreateFeed /\ UNCHANGED NotSync /\ UNCHANGED cfile
SpecSync == InitSync /\ [][NextSync]_vars

\* One run of sync_workflow.main over its input rows.
InitMain == MainInit /\ WaitIdle /\ PricingIdle /\ ResolveIdle /\ ApproveIdle /\ SyncIdle /\ SessionIdle /\ ClassifyIdle /\ ReplaceIdle /\ FetchIdle
NextMain ==
    \/ MainResolveStart /\ UNCHANGED NotMain
    \/ MainSignedCall /\ UNCHANGED NotMain
    \/ MainResolveEnd /\ UNCHANGED NotMain
    \/ MainExecute /\ UNCHANGED NotMain
    \/ MainReport /\ UNCHANGED NotMain
SpecMain == InitMain /\ [][NextMain]_vars

\* A caller of one SpReportsSession: any one operation, and from create_report
\* on the create, wait, download sequence.
InitSession ==
    /\ SessionInit /\ WaitInit
    /\ PricingIdle /\ ResolveIdle /\ ApproveIdle /\ SyncIdle /\ MainIdle /\ ClassifyIdle /\ ReplaceIdle /\ FetchIdle
NextSession ==
    \/ SessionCreateReport /\ UNCHANGED <<wvars, NotSession>>
    \/ SessionGetReport /\ UNCHANGED <<wvars, NotSession>>
    \/ fpc = "wait" /\ WaitReportCall /\ UNCHANGED <<fvars, NotSession>>
    \/ fpc = "wait" /\ WaitReportPoll /\ UNCHANGED <<fvars, NotSession>>
    \/ fpc = "wait" /\ WaitReportSleep /\ UNCHANGED <<fvars, NotSession>>
    \/ SessionWaited /\ UNCHANGED <<wvars, NotSession>>
    \/ SessionGetReportDocument /\ UNCHANGED <<wvars, NotSession>>
    \/ SessionDownloadReport /\ UNCHANGED <<wvars, NotSession>>
SpecSession == InitSession /\ [][NextSession]_vars

\* One run of classify_products over its input rows.
InitClassify ==
    /\ ClassifyInit /\ WaitIdle /\ PricingIdle /\ ResolveIdle /\ ApproveIdle /\ SyncIdle
    /\ MainIdle /\ SessionIdle /\ ReplaceIdle /\ FetchIdle
NextClassify ==
    \/ ClassifyProductsRow /\ UNCHANGED NotClassify
    \/ ClassifyProductsWrite /\ UNCHANGED NotClassify
SpecClassify == InitClassify /\ [][NextClassify]_vars

\* One call of _safe_replace.
InitReplace ==
    /\ ReplaceInit /\ WaitIdle /\ PricingIdle /\ ResolveIdle /\ ApproveIdle /\ SyncIdle
    /\ MainIdle /\ SessionIdle /\ ClassifyIdle /\ FetchIdle
NextReplace ==
    \/ SafeReplaceTry /\ UNCHANGED NotReplace
    \/ SafeReplaceAlt /\ UNCHANGED NotReplace
SpecReplace == InitReplace /\ [][NextReplace]_vars

\* One call of fetch_my_inventory, wait_report running inside it.
InitFetch ==
    /\ FetchInit /\ WaitInit
    /\ PricingIdle /\ ResolveIdle /\ ApproveIdle /\ SyncIdle /\ MainIdle /\ SessionIdle
    /\ ClassifyIdle /\ ReplaceIdle
NextFetch ==
    \/ FetchStart /\ UNCHANGED <<wvars, NotFetch>>
    \/ gpc = "wait" /\ WaitReportCall /\ UNCHANGED <<gvars, NotFetch>>
    \/ gpc = "wait" /\ WaitReportPoll /\ UNCHANGED <<gvars, NotFetch>>
    \/ gpc = "wait" /\ WaitReportSleep /\ UNCHANGED <<gvars, NotFetch>>
    \/ FetchChecked /\ UNCHANGED <<wvars, NotFetch>>
    \/ FetchDownload /\ UNCHANGED <<wvars, NotFetch>>
    \/ FetchWriteRaw /\ UNCHANGED <<wvars, NotFetch>>
    \/ FetchParse /\ UNCHANGED <<wvars, NotFetch>>
    \/ FetchWriteCsv /\ UNCHANGED <<wvars, NotFetch>>
SpecFetch == InitFetch /\ [][NextFetch]_vars

\* ==================================================================== claims
\* The terminal statuses of a FeedJob as the data model lists them.
FeedTerminal == {"DONE", "CANCELLED", "FATAL", "ERROR"}

ObservedTerminal(j) == j.kind = "ok" /\ j.status \in FeedTerminal
ObservedNonTerminal(j) == j.kind = "ok" /\ j.status \notin FeedTerminal

\* The number of polls before the first one that observed a terminal status.
RECURSIVE LeadingNonTerminal(_)
LeadingNonTerminal(polls) ==
    IF polls = <<>> \/ ~ObservedNonTerminal(Head(polls)) THEN 0
    ELSE 1 + LeadingNonTerminal(Tail(polls))

\* C1: in wait_report a poll that observes DONE, CANCELLED, FATAL or ERROR is
\* the last poll of the wait and its payload is what the wait returns: no poll
\* follows a terminal one, so no status, terminal or not, is observed after it.
ThmC1 ==
    \A i \in 1..Len(wpolls) :
        ObservedTerminal(wpolls[i]) =>
            /\ i = Len(wpolls)
            /\ wpc = "returned"
            /\ wresult = wpolls[i]

\* C1 witness: a real wait that polled more than once and ended on a terminal status.
WitC1 ==
    /\ ~wsimulate /\ wpc = "returned"
    /\ Len(wpolls) >= 2
    /\ ObservedTerminal(Last(wpolls))

\* C2: when the first k polls are non-terminal and poll k+1 is terminal, the
\* wait returns the payload of poll k+1 after exactly k sleeps, each of
\* poll_every, and k+1 polls.
ThmC2 ==
    (/\ wpc = "returned" /\ ~wsimulate
     /\ \E i \in 1..Len(wpolls) : ObservedTerminal(wpolls[i]))
    => LET k == LeadingNonTerminal(wpolls)
       IN  /\ Len(wpolls) = k + 1
           /\ wresult = wpolls[k + 1]
           /\ wsleeps = k
           /\ wslept = k * wpollEvery

\* C2 witness: IN_PROGRESS, IN_PROGRESS, DONE returned after two sleeps.
WitC2 ==
    /\ wpc = "returned" /\ ~wsimulate
    /\ Len(wpolls) = 3
    /\ wpolls[1].status = "IN_PROGRESS" /\ wpolls[2].status = "IN_PROGRESS"
    /\ wpolls[3].status = "DONE"
    /\ wresult = wpolls[3]
    /\ wsleeps = 2

\* C3: when every poll returned a non-terminal status, the wait returns (it
\* does not raise) only with the elapsed time above timeout_sec, the payload is
\* that of the most recent poll and its status is non-terminal; and the wait
\* never goes to sleep again once the elapsed time is above timeout_sec.
ThmC3 ==
    /\ (/\ wpc = "returned" /\ ~wsimulate
        /\ \A i \in 1..Len(wpolls) : ObservedNonTerminal(wpolls[i]))
       => /\ wpolls # <<>>
          /\ wresult = Last(wpolls)
          /\ wresult.status \notin FeedTerminal
          /\ welapsed > wtimeout
    /\ (wpc = "sleep" => welapsed <= wtimeout)
    /\ (wpc = "raised" => \E i \in 1..Len(wpolls) : wpolls[i].kind # "ok")

\* C3 witness: a wait that timed out on its third IN_PROGRESS poll.
WitC3 ==
    /\ wpc = "returned" /\ ~wsimulate
    /\ Len(wpolls) = 3
    /\ \A i \in 1..3 : wpolls[i].status = "IN_PROGRESS"
    /\ wresult = wpolls[3]
    /\ welapsed > wtimeout

\* C4 (as claimed): a poll that fails with a transport error or a non-2xx
\* response never makes wait_report raise or stop: after a failed poll the wait
\* sleeps and polls again, or has returned on a terminal status or the deadline.
CexC4 ==
    (\E i \in 1..Len(wpolls) : wpolls[i].kind # "ok")
    => /\ wpc # "raised"
       /\ wpc = "returned" =>
            (ObservedTerminal(Last(wpolls)) \/ welapsed > wtimeout)

\* C5 (as claimed): for all inputs, whatever max_price_cap is configured, the
\* final_price calc_final_price returns is at least the floor_price it returns.
CexC5 ==
    (ppc = "done" /\ pcall = "final" /\ pout.outcome = "ok")
    => pout.final_price >= pout.floor_price

\* C6: with no max price cap, final_price = max(floor, competitor - undercut)
\* for a competitor price > 0 and final_price = floor for an absent, zero or
\* negative one; competitor = F + 10.00 with step 0.01 gives F + 9.99 and
\* competitor = F - 5.00 gives F.
ThmC6 ==
    (/\ ppc = "done" /\ pcall = "final" /\ pout.outcome = "ok"
     /\ pcfg.max_price_cap = NoneArg)
    => LET F == pout.floor_price
       IN  /\ (pcomp.kind = "num" /\ pcomp.v > 0)
                => pout.final_price = Max(F, pcomp.v - pcfg.undercut_step)
           /\ (pcomp.kind = "none" \/ (pcomp.kind = "num" /\ pcomp.v <= 0))
                => pout.final_price = F
           /\ (pcomp = Num(F + 1000) /\ pcfg.undercut_step = 1)
                => pout.final_price = F + 999
           /\ pcomp = Num(F - 500) => pout.final_price = F

\* C6 witness: competitor = F + 10.00, step 0.01, no cap, result F + 9.99.
WitC6 ==
    /\ ppc = "done" /\ pcall = "final" /\ pout.outcome = "ok"
    /\ pcfg.max_price_cap = NoneArg /\ pcfg.undercut_step = 1
    /\ pout.floor_price > 0
    /\ pcomp = Num(pout.floor_price + 1000)
    /\ pout.final_price = pout.floor_price + 999

\* C7 (as claimed): neither function raises on a malformed numeric argument,
\* an invalid or negative cost gives the prices of cost = 0, and the floor
\* price is never negative.
CexC7 ==
    ppc = "done" =>
        /\ pout.outcome = "ok"
        /\ pout.floor_price >= 0
        /\ (pcost.kind = "invalid" \/ (pcost.kind = "num" /\ pcost.v < 0))
             => pout = (IF pcall = "final"
                          THEN calc_final_price(Num(0), pcomp, pcfg)
                          ELSE call_calc_floor_price(Num(0), pcfg))

\* The fixed order of the lookups.
LookupRank(op) ==
    CASE op = "get_listing" -> 1
      [] op = "search_by_ean" -> 2
      [] op = "search_by_keywords:brand" -> 3
      [] op = "search_by_keywords:all" -> 4

\* A 200 answer that carries what the step looks for.
AnswerHasListing(resp) ==
    /\ resp.kind = "ok" /\ resp.summaries # <<>>
    /\ resp.summaries[1].asin \notin {NoneVal, ""}
AnswerHasItems(resp) == resp.kind = "ok" /\ resp.items # <<>>

\* C8: the lookups of resolve_asin are issued in the order own-listing,
\* identifier, brand-filtered keywords, unfiltered keywords, each at most once;
\* nothing is issued after a listing hit, after an identifier hit, or after a
\* brand-filtered search that produced items; the listing lookup needs a
\* seller id and a sku, the identifier lookup an ean; and a keyword-path
\* return has issued the brand-filtered search, with the unfiltered one issued
\* exactly when the brand-filtered one produced no items.
ThmC8 ==
    /\ \A i, j \in 1..Len(rcalls) :
         i < j => LookupRank(rcalls[i].op) < LookupRank(rcalls[j].op)
    /\ \A i \in 1..Len(rcalls) :
         /\ (rcalls[i].op = "get_listing" /\ AnswerHasListing(rcalls[i].resp))
              => i = Len(rcalls)
         /\ (rcalls[i].op = "search_by_ean" /\ AnswerHasItems(rcalls[i].resp))
              => i = Len(rcalls)
         /\ (rcalls[i].op = "search_by_keywords:brand" /\ AnswerHasItems(rcalls[i].resp))
              => i = Len(rcalls)
         /\ rcalls[i].op = "get_listing" => (rin.seller_id # NoneVal /\ rin.sku # "")
         /\ rcalls[i].op = "search_by_ean" => rin.ean # NoneVal
         /\ rcalls[i].op = "search_by_keywords:all" =>
              (i > 1 /\ rcalls[i - 1].op = "search_by_keywords:brand")
    /\ (rpc \in {"returned", "classified"} /\ rres.status \in {"catalog_ambiguous", "not_found"})
         => \E i \in 1..Len(rcalls) :
              /\ rcalls[i].op = "search_by_keywords:brand"
              /\ (i = Len(rcalls)) <=> AnswerHasItems(rcalls[i].resp)

\* C8 witness: an identifier hit after a listing miss ended the resolution
\* with two lookups issued.
WitC8 ==
    /\ rpc = "returned" /\ ~rsimulate
    /\ Len(rcalls) = 2
    /\ rcalls[1].op = "get_listing"
    /\ rcalls[2].op = "search_by_ean" /\ AnswerHasItems(rcalls[2].resp)
    /\ rres.status = "catalog_match"

Present(asin) == asin \notin {NoneVal, ""}

\* C9 (as claimed): every result of resolve_asin and every row written by
\* classify_products carries a non-empty asin exactly when its status is
\* listed or catalog_match.
CexC9 ==
    /\ rpc \in {"returned", "classified"}
         => (Present(rres.asin) <=> rres.status \in {"listed", "catalog_match"})
    /\ rpc = "classified"
         => (crow.asin # "" <=> crow.existence \in {"listed", "catalog_match"})

\* The highest score among the scored candidates (0 when there is none).
TopScore ==
    IF rscored = <<>> THEN 0
    ELSE CHOOSE m \in {rscored[i].score : i \in 1..Len(rscored)} :
            \A i \in 1..Len(rscored) : rscored[i].score <= m

ViaKeywords ==
    /\ rpc \in {"returned", "classified"}
    /\ rcalls # <<>>
    /\ LookupRank(Last(rcalls).op) >= 3

\* C10: on the keyword path the status is catalog_match iff the highest score
\* is >= 0.80 (the asin then being that of the first candidate with that
\* score), catalog_ambiguous iff there is a candidate and the highest score is
\* below 0.80, and not_found iff there is no candidate; two candidates scoring
\* 0.20 each give catalog_ambiguous.
ThmC10 ==
    ViaKeywords =>
        /\ rres.status \in {"catalog_match", "catalog_ambiguous", "not_found"}
        /\ rres.status = "catalog_match" <=> (rscored # <<>> /\ TopScore >= 80)
        /\ rres.status = "catalog_ambiguous" <=> (rscored # <<>> /\ TopScore < 80)
        /\ rres.status = "not_found" <=> rscored = <<>>
        /\ rres.score = TopScore
        /\ rres.status = "catalog_match" =>
             \E i \in 1..Len(rscored) :
                /\ rscored[i].score = TopScore
                /\ \A j \in 1..(i - 1) : rscored[j].score < TopScore
                /\ rres.asin = rscored[i].asin
        /\ (Len(rscored) = 2 /\ rscored[1].score = 20 /\ rscored[2].score = 20)
             => rres.status = "catalog_ambiguous"

\* C10 witness: two brand-only candidates (0.20 each) ended in catalog_ambiguous.
WitC10 ==
    /\ ViaKeywords
    /\ Len(rscored) = 2
    /\ rscored[1].score = 20 /\ rscored[2].score = 20
    /\ rscored[1].asin # rscored[2].asin
    /\ rres.status = "catalog_ambiguous"

\* True when the candidates are in non-increasing score order.
ScoreOrdered(cands) ==
    \A i, j \in 1..Len(cands) : i < j => cands[i].score >= cands[j].score

\* C11 (as claimed): a catalog_ambiguous result returns the (at most) five
\* highest-scoring candidates in non-increasing score order, so the reported
\* score is the score of the first returned candidate.
CexC11 ==
    (rpc \in {"returned", "classified"} /\ rres.status = "catalog_ambiguous") =>
        /\ Len(rres.candidates) = Min(5, Len(rscored))
        /\ ScoreOrdered(rres.candidates)
        /\ rres.candidates # <<>> /\ rres.score = rres.candidates[1].score
        /\ \A i \in 1..Len(rscored) :
              (\E k \in 1..Len(rres.candidates) : rres.candidates[k] = rscored[i])
              \/ \A k \in 1..Len(rres.candidates) :
                    rres.candidates[k].score >= rscored[i].score

\* C12 (as claimed): a network failure, a non-200 response or an unparsable
\* body at a lookup counts as no results for that step and the resolution goes
\* on to return a result; only a failed token exchange aborts resolve_asin.
CexC12 ==
    /\ rpc = "raised" => Last(rcalls).resp.kind = "autherr"
    /\ \A i \in 1..Len(rcalls) :
         rcalls[i].resp.kind \in {"neterr", "non200", "badjson"}
            => (i < Len(rcalls) \/ rpc # "raised")

\* The action the planner attaches to each existence status.
PlannedAction(status) ==
    CASE status = "listed" -> "update_price_stock"
      [] status = "catalog_match" -> "create_listing"
      [] status = "catalog_ambiguous" -> "review"
      [] status = "not_found" -> "create_product"

\* C13: the final status of a classified row is listed whenever the resolved
\* asin is in the seller's inventory index, whatever the resolver returned, and
\* is the resolver's status otherwise; the action is the function of the final
\* status alone.
ThmC13 ==
    rpc = "classified" =>
        /\ (Present(rres.asin) /\ rres.asin \in cinv) => crow.existence = "listed"
        /\ ~(Present(rres.asin) /\ rres.asin \in cinv) => crow.existence = rres.status
        /\ crow.existence \in {"listed", "catalog_match", "catalog_ambiguous", "not_found"}
        /\ crow.action = PlannedAction(crow.existence)

\* C13 witness: an identifier match whose asin is in the inventory index was
\* classified as listed with action update_price_stock.
WitC13 ==
    /\ rpc = "classified"
    /\ rres.status = "catalog_match"
    /\ rres.asin \in cinv
    /\ crow.existence = "listed"
    /\ crow.action = "update_price_stock"

\* C14 (as claimed): every row classified as listed has an asin that is in the
\* inventory index read for the run, rows reported as listed by the own-listing
\* lookup included.
CexC14 ==
    (rpc = "classified" /\ crow.existence = "listed") => crow.asin \in cinv

\* True of a selected item that was posted from a row still in review.
FromReviewRow(it) ==
    \E i \in 1..Len(cfile) :
        /\ cfile[i].sku = it.sku /\ cfile[i].asin = it.asin
        /\ cfile[i].existence = "catalog_ambiguous" /\ cfile[i].action = "review"

\* C15 (as claimed): a row whose resolution is catalog_ambiguous (action
\* review) and that no approval has promoted is never among the rows of the
\* pricing and inventory feeds sync_from_classified builds, nor in a feed it
\* creates on the marketplace.
CexC15 ==
    /\ \A i \in 1..Len(sitems) : ~FromReviewRow(sitems[i])
    /\ \A k \in 1..Len(smarket) : \A i \in 1..Len(sitems) :
          sitems[i].sku = smarket[k].skus[i] => ~FromReviewRow(sitems[i])

\* A bulk_approve request that passed validation and wrote the file.
BulkDone(h) == hpc[h] = "done" /\ hreq[h].op = "bulk_approve" /\ hresp[h] = 200

LeastOf(S) == CHOOSE i \in S : \A j \in S : i <= j

\* The positions of the stored candidates whose brand equals the product's
\* brand case-insensitively.
BrandMatches(row) ==
    {i \in 1..Len(row.options) : casefold(row.options[i].brand) = casefold(row.brand)}

\* The asin of the first candidate of the product's brand, else of the first candidate.
ClaimedPick(row) ==
    IF BrandMatches(row) # {} THEN row.options[LeastOf(BrandMatches(row))].asin
    ELSE row.options[1].asin

\* C16 (as claimed): for each sku passed to bulk_approve whose row is
\* catalog_ambiguous (with stored candidates), the row ends with the asin of
\* the first candidate of the product's brand, else of the first candidate,
\* and with status catalog_match and action create_listing.
CexC16 ==
    \A h \in Handlers : BulkDone(h) =>
        \A k \in 1..Len(hreq[h].skus) : \A i \in SkuMask(hdf[h], hreq[h].skus[k]) :
            (hdf[h][i].existence = "catalog_ambiguous" /\ hdf[h][i].options # <<>>) =>
                /\ hwrote[h][i].asin = ClaimedPick(hdf[h][i])
                /\ hwrote[h][i].existence = "catalog_match"
                /\ hwrote[h][i].action = "create_listing"

\* The asin of the first candidate of the product's brand that carries an asin,
\* else of the first candidate (absent when there is no candidate).
AmendedPick(row) ==
    LET good == {i \in BrandMatches(row) : Present(row.options[i].asin)}
    IN  IF good # {} THEN row.options[LeastOf(good)].asin
        ELSE IF row.options # <<>> THEN row.options[1].asin
        ELSE NoneVal

\* C16 (amended): for each sku passed to bulk_approve whose first row is
\* catalog_ambiguous, the pick is the asin of the first candidate of the
\* product's brand that carries an asin, else the asin of the first candidate;
\* when the pick is present every row of that sku ends with it, status
\* catalog_match and action create_listing, and when it is absent those rows
\* are left as they were.
ThmC16 ==
    \A h \in Handlers : BulkDone(h) =>
        /\ Len(hwrote[h]) = Len(hdf[h])
        /\ \A k \in 1..Len(hreq[h].skus) :
             LET mask == SkuMask(hdf[h], hreq[h].skus[k])
             IN  (mask # {} /\ hdf[h][LeastOf(mask)].existence = "catalog_ambiguous") =>
                    LET pick == AmendedPick(hdf[h][LeastOf(mask)])
                    IN  \A i \in mask :
                           IF Present(pick)
                             THEN hwrote[h][i] =
                                    [hdf[h][i] EXCEPT !.asin = pick,
                                                      !.existence = "catalog_match",
                                                      !.action = "create_listing"]
                           ELSE hwrote[h][i] = hdf[h][i]

\* C16 witness: a review row whose first candidate of the product's brand has
\* no asin was promoted to the later candidate of that brand.
WitC16 ==
    \E h \in Handlers :
        /\ BulkDone(h)
        /\ \E i \in 1..Len(hdf[h]) :
              /\ hdf[h][i].existence = "catalog_ambiguous"
              /\ BrandMatches(hdf[h][i]) # {}
              /\ ~Present(ClaimedPick(hdf[h][i]))
              /\ hwrote[h][i].existence = "catalog_match"
              /\ hwrote[h][i].asin = "B0YYY2"
              /\ hwrote[h][i].action = "create_listing"

\* C17 (as claimed): bulk_approve changes only rows whose sku was submitted,
\* whose status was catalog_ambiguous and that have a stored candidate; every
\* other row, a second row of a submitted sku with another status included, is
\* written back unchanged.
CexC17 ==
    \A h \in Handlers : BulkDone(h) =>
        /\ Len(hwrote[h]) = Len(hdf[h])
        /\ \A i \in 1..Len(hdf[h]) :
              hwrote[h][i] # hdf[h][i] =>
                 /\ \E k \in 1..Len(hreq[h].skus) : i \in SkuMask(hdf[h], hreq[h].skus[k])
                 /\ hdf[h][i].existence = "catalog_ambiguous"
                 /\ hdf[h][i].options # <<>>

\* An approve_asin request that found its sku and wrote the file.
ApproveDone(h) == hpc[h] = "done" /\ hreq[h].op = "approve_asin" /\ hresp[h] = 200

\* The file carries the approval thread h made.
Survives(h) ==
    \A i \in SkuMask(cfile, hreq[h].sku) :
        cfile[i].asin = hreq[h].asin /\ cfile[i].existence = "catalog_match"

\* C18 (as claimed): the read-modify-write cycles on the classification file
\* are serialized, so once two concurrent approvals of different skus have
\* both completed, the file carries both.
CexC18 ==
    \A g, h \in Handlers :
        (g # h /\ ApproveDone(g) /\ ApproveDone(h)
            /\ sku_key(hreq[g].sku) # sku_key(hreq[h].sku))
        => (Survives(g) /\ Survives(h))

\* C19 (as claimed): within one run a token exchange happens only when no
\* token was obtained before or the last one obtained is within 60 seconds of
\* its expiry; calls for successive rows reuse the cached token.
CexC19 ==
    \A k \in 2..Len(mlog) :
        mlog[k].at >= mlog[k - 1].at + mlog[k - 1].expires_in - 60

\* C20 (as claimed): on a session with simulate = true no operation raises,
\* each one returns a terminal-success payload, and the create, wait, download
\* sequence runs to its end.
CexC20 ==
    wsimulate =>
        /\ fpc # "raised"
        /\ \A k \in 1..Len(flog) : flog[k].outcome.kind = "returned"

\* The feed statuses sync_from_classified obtains by polling a feed it created:
\* between _create_feed and the summary (app_flask.py lines 360-380) there is
\* no poll, so there is none.
FeedStatusesPolled == {}

\* A real-mode request that created both feeds and wrote its summary.
RealSummaryWritten == spc = "done" /\ ~ssimulate /\ sresp = 200

\* C21 (as claimed): every feed submitted in real mode is recorded in the
\* summary with its id and a terminal status, or with the timed-out last
\* status a poll of that feed returned; never with a status no poll observed.
CexC21 ==
    RealSummaryWritten =>
        /\ ssummary.pricing.feedId = smarket[1].feedId
        /\ ssummary.inventory.feedId = smarket[2].feedId
        /\ ssummary.pricing.status \in FeedTerminal \cup FeedStatusesPolled
        /\ ssummary.inventory.status \in FeedTerminal \cup FeedStatusesPolled

\* C22 (as claimed): every run that submitted a feed writes its summary; when
\* the pricing feed was created and a later inventory step failed, a summary
\* carrying the pricing feed's id is still written.
CexC22 ==
    (spc = "done" /\ ~ssimulate /\ smarket # <<>>) =>
        /\ ssummary # NoSummary
        /\ ssummary.pricing.feedId = smarket[1].feedId

\* C23 (as claimed): a run of classify_products over n input rows ends with n
\* report rows written, one per input row; a transport failure while resolving
\* row i does not abort the run (only a failed token exchange may).
CexC23 ==
    /\ kpc # "raised_transport"
    /\ kpc = "done" => (kwritten /\ Len(kout) = kn)

\* The exceptions fetch_my_inventory raises because of the result document.
DocumentErrors ==
    {"RuntimeError:not_done", "RuntimeError:no_document_id", "BadGzipFile",
     "RuntimeError:empty"}

\* C24 (as claimed): fetch_my_inventory never raises to its caller because of
\* the result document: a report that is not DONE, a missing reportDocumentId,
\* a document that fails gzip decompression and an empty document all end in a
\* returned value.
CexC24 == ~(gpc = "raised" /\ gerr \in DocumentErrors)

ReportReady == wpc = "returned" /\ wresult.status = "DONE" /\ wresult.doc # ""

\* C30: in a real run of fetch_my_inventory the document is downloaded only
\* after wait_report returned DONE with a non-empty reportDocumentId; after
\* CANCELLED, FATAL, ERROR or a timed-out non-terminal status no document is
\* fetched and neither data file (nor an alternate of one) is written.
ThmC30 ==
    ~wsimulate =>
        /\ gpc \in {"download", "write_raw", "parse", "write_csv", "returned"} => ReportReady
        /\ (gdocs > 0 \/ grawfile = "new" \/ gcsvfile = "new" \/ galt # {}) => ReportReady
        /\ (wpc = "returned" /\ ~ReportReady /\ gpc = "raised") =>
             (gdocs = 0 /\ grawfile = "old" /\ gcsvfile = "old")
WitC30 ==
    /\ ~wsimulate /\ ReportReady
    /\ gpc = "returned" /\ gdocs = 1 /\ grawfile = "new" /\ gcsvfile = "new"

ReplaceEnded == ypc \in {"returned", "raised"}
HoldingNew == {p \in DOMAIN yfiles : yfiles[p] = "new"}

\* C26: _safe_replace calls os.replace on the destination at most `retries`
\* times and stops at the first success; when every attempt met a lock the
\* data is stored under the alternate name before the error is raised; once
\* the function has ended the new data is at exactly one of the destination
\* and the alternate path.
ThmC26 ==
    /\ yattempts <= yretries
    /\ ysleeps \in {yattempts - 1, yattempts}
    /\ ypc = "try" => (ysleeps = yattempts /\ HoldingNew = {tmp_of(ydst)})
    /\ ypc = "returned" => (ysleeps = yattempts - 1 /\ HoldingNew = {ydst})
    /\ ypc = "raised" =>
         /\ yattempts = yretries /\ ysleeps = yretries
         /\ alt_name(ydst, Now) # ydst
         /\ HoldingNew = {alt_name(ydst, Now)}
    /\ ReplaceEnded => Cardinality(HoldingNew \cap {ydst, alt_name(ydst, Now)}) = 1
WitC26 ==
    /\ ypc = "raised" /\ yretries = MaxRetries /\ ysleeps = MaxRetries
    /\ yfiles[alt_name(ydst, Now)] = "new" /\ yfiles[ydst] = "old"

WaitEnded == wpc \in {"returned", "raised"}
\* No get_report took any time so far: all the time that passed was slept.
LatencyFree == welapsed = wslept
\* Without latency poll k is issued (k - 1) * poll_every after the start.
PollsAfterDeadline == {k \in 1..Len(wpolls) : (k - 1) * wpollEvery > wtimeout}
PollBound ==
    LatencyFree =>
        /\ Len(wpolls) <= (wtimeout \div wpollEvery) + 2
        /\ Cardinality(PollsAfterDeadline) <= 1
        /\ welapsed <= wtimeout + wpollEvery

\* C25: wait_report ends for every sequence of poll responses; with poll
\* latency ignored it issues at most floor(T/p) + 2 polls, at most one of them
\* after the deadline, and ends no later than T + p after it started.
ThmC25 == [](PollBound) /\ <>WaitEnded
WitC25 ==
    /\ wpc = "returned" /\ LatencyFree /\ ~IsTerminalStatus(wresult.status)
    /\ wtimeout = MaxTimeout - 1 /\ wpollEvery = MaxPollEvery
    /\ Len(wpolls) = (wtimeout \div wpollEvery) + 2
    /\ welapsed = wtimeout + wpollEvery
    /\ Cardinality(PollsAfterDeadline) = 1

\* The scores lines 197-203 can produce, in hundredths.
KeywordScores == {0, 10, 15, 20, 30, 35}
KeywordItemsFound ==
    /\ ViaKeywords
    /\ AnswerHasItems(Last(rcalls).resp)

\* C27: every score given to a keyword-search candidate is one of 0, 0.10,
\* 0.15, 0.20, 0.30, 0.35, hence below 0.80; catalog_match is returned only
\* from the identifier lookup; a keyword search that yields an item ends in
\* catalog_ambiguous.
ThmC27 ==
    /\ \A i \in 1..Len(rscored) :
         rscored[i].score \in KeywordScores /\ ~MatchThreshold(rscored[i].score)
    /\ (rpc \in {"returned", "classified"} /\ rres.status = "catalog_match")
         => Last(rcalls).op = "search_by_ean"
    /\ KeywordItemsFound => rres.status = "catalog_ambiguous"
WitC27 ==
    /\ KeywordItemsFound
    /\ {rscored[i].score : i \in 1..Len(rscored)} = {0, 35}
    /\ rres.status = "catalog_ambiguous" /\ rres.score = 35

\* C28: with simulate = true resolve_asin makes no token exchange and no
\* network call (every lookup is answered by the canned object of _signed, and
\* none raises), and it returns not_found with asin None, score 0.0 and no
\* candidates whatever sku, brand, ean and seller_id are.
ThmC28 ==
    rsimulate =>
        /\ \A i \in 1..Len(rcalls) : rcalls[i].resp = SimulatedResponse
        /\ rpc # "raised"
        /\ rpc \in {"returned", "classified"} => rres = Result("not_found", NoneVal, 0, <<>>)
WitC28 ==
    /\ rsimulate /\ rpc = "returned"
    /\ rin.seller_id # NoneVal /\ rin.sku # "" /\ rin.ean # NoneVal
    /\ Len(rcalls) = 4
    /\ rres = Result("not_found", NoneVal, 0, <<>>)

\* C29: with DRY_RUN true main calls neither patch_listings_item nor
\* put_listings_item for any row, whatever resolve_asin gave, and still
\* appends one result row per input row.
ThmC29 ==
    mdry =>
        /\ mwrites = <<>>
        /\ Len(mout) = mi - 1
        /\ mpc \in {"report", "done"} => Len(mout) = mn
WitC29 ==
    /\ mdry /\ mpc = "done" /\ mn = MaxRunRows
    /\ Len(mout) = mn /\ mwrites = <<>>
    /\ mout[1].asin # "n/a" /\ mout[mn].asin = "n/a"

====
